---------------------------- MODULE Spec2Model ----------------------------
(***************************************************************************)
(* A model of ghe-reposec: the scan stage (lava.Client.Scan, worker,       *)
(* scanRepo) and the discovery stage (github.Client.Repositories,          *)
(* orgRepositories), translated from src/internal/github/github.go.        *)
(*                                                                         *)
(* A string built with fmt.Sprintf is the sequence of its parts, each part *)
(* a tuple, so the empty string is <<>>.  A nil error is Nil.              *)
(***************************************************************************)
EXTENDS Integers, Sequences, FiniteSets, TLC

Nil == <<>>

(***************************************************************************)
(* Bounds of the model.                                                    *)
(***************************************************************************)
\* Largest exit status a scanner process exits with.
MaxExitCode == 2
\* Size of a scanner report: its findings, resources and rows, counted together.
MaxReportSize == 5
\* Largest configured concurrency ceiling (LAVA_CONCURRENCY, GHE_CONCURRENCY).
MaxConcurrency == 2
\* Longest target list handed to Scan.
MaxTargets == 2
\* Most organizations of the enterprise.
MaxOrgs == 2
\* Most pages of one organization's repository listing.
MaxPages == 2
\* A failed ListByOrg call is asked again only while fewer than MaxRetries
\* calls have failed in the run.
MaxRetries == 1
\* Most evaluations of the filter on one repository, and the most days that
\* pass between the first and the last.
MaxEvaluations == 2
\* Most calls bound to a context that are followed in one run.
MaxCalls == 3
MaxElapsedDays == 6

(***************************************************************************)
(* The scanner's report (report.Vulnerability of vulcan-report): a JSON    *)
(* array of findings {AffectedResource, Score, Resources: [{Rows: [...]}]} *)
(* where a row is a map from column names to strings.                      *)
(***************************************************************************)
Addresses == {"https://ghe.example/org1/repo1", "https://ghe.example/org2/repo2"}

AffectedResources == {"org1/repo1", "org2/repo2"}

Scores == {0, 7}

RowSet ==
    { [k \in {"Name"} |-> "README"],
      [k \in {"Control"} |-> "MFA"],
      [k \in {"Control", "Name"} |-> IF k = "Control" THEN "BranchProtection" ELSE "main"] }

RECURSIVE SeqsUpTo(_, _)
SeqsUpTo(S, n) ==
    IF n <= 0 THEN {<<>>}
    ELSE LET P == SeqsUpTo(S, n - 1)
         IN  P \cup {Append(s, x) : s \in {p \in P : Len(p) = n - 1}, x \in S}

\* The resource lists that take at most w units: one per resource, one per row.
RECURSIVE ResourceLists(_)
ResourceLists(w) ==
    {<<>>} \cup
    (IF w <= 0 THEN {}
     ELSE UNION { { <<[Rows |-> rows]>> \o rest : rest \in ResourceLists(w - 1 - Len(rows)) } :
                  rows \in SeqsUpTo(RowSet, w - 1) })

FindingsOfSize(w) ==
    IF w <= 0 THEN {}
    ELSE { [AffectedResource |-> a, Score |-> s, Resources |-> rs] :
           a \in AffectedResources, s \in Scores, rs \in ResourceLists(w - 1) }

RECURSIVE RowCount(_)
RowCount(resources) ==
    IF resources = <<>> THEN 0
    ELSE Len(Head(resources).Rows) + RowCount(Tail(resources))

FindingSize(f) == 1 + Len(f.Resources) + RowCount(f.Resources)

\* The finding arrays that take at most w units.
RECURSIVE FindingArrays(_)
FindingArrays(w) ==
    {<<>>} \cup
    (IF w <= 0 THEN {}
     ELSE UNION { { <<f>> \o rest : rest \in FindingArrays(w - FindingSize(f)) } :
                  f \in FindingsOfSize(w) })

\* What the scanner left on standard output: no bytes, bytes that are not JSON,
\* the JSON value null, a JSON object, or a JSON array of findings.
StdoutOfSize(w) ==
    { [kind |-> k, findings |-> <<>>] : k \in {"empty", "garbage", "null", "object"} }
    \cup { [kind |-> "array", findings |-> fs] : fs \in FindingArrays(w) }

\* How the child process ended: exited with a status, killed by a signal, or
\* never started (cmd.ProcessState stays nil).
ProcessStates ==
    { [kind |-> "exited", code |-> c] : c \in 0 .. MaxExitCode }
    \cup { [kind |-> "signaled", code |-> -1], [kind |-> "notstarted", code |-> -1] }

\* The error cmd.Run returns for a process that ended in state ps.
cmdRunErr(ps) ==
    CASE ps.kind = "exited" /\ ps.code = 0 -> Nil
      [] ps.kind = "exited" /\ ps.code # 0 -> <<"exit status", ps.code>>
      [] ps.kind = "signaled"              -> <<"signal: killed">>
      [] ps.kind = "notstarted"            -> <<"fork/exec: no such file or directory">>

\* One scanner invocation as scanRepo sees it after cmd.Run returned.
RunsOfSize(w) ==
    { [state |-> ps, err |-> cmdRunErr(ps), stdout |-> out] :
      ps \in {p \in ProcessStates : p.kind # "notstarted"}, out \in StdoutOfSize(w) }
    \cup { [state |-> ps, err |-> cmdRunErr(ps), stdout |-> [kind |-> "empty", findings |-> <<>>]] :
           ps \in {p \in ProcessStates : p.kind = "notstarted"} }

(***************************************************************************)
(* lava.Client.scanRepo                                                    *)
(***************************************************************************)
\* (*os.ProcessState).ExitCode: -1 for a nil receiver or a signalled process.
ExitCode(ps) == IF ps.kind = "exited" THEN ps.code ELSE -1

\* json.Unmarshal(outBuf.Bytes(), &lr)
jsonUnmarshal(stdout) ==
    CASE stdout.kind = "array"   -> [err |-> Nil, lr |-> stdout.findings]
      [] stdout.kind = "null"    -> [err |-> Nil, lr |-> <<>>]
      [] stdout.kind = "empty"   -> [err |-> <<"unexpected end of JSON input">>, lr |-> <<>>]
      [] stdout.kind = "garbage" -> [err |-> <<"invalid character looking for beginning of value">>, lr |-> <<>>]
      [] stdout.kind = "object"  -> [err |-> <<"json: cannot unmarshal object into Go value">>, lr |-> <<>>]

\* Summary{Repository: repo, Error: msg}: the other fields keep Go's zero values.
errorSummary(repo, msg) ==
    [Repository |-> repo, Controls |-> <<>>, ControlInPlace |-> FALSE,
     NumberOfControls |-> 0, Error |-> msg]

\* if cmd.ProcessState.ExitCode() > 0
runFailed(run) == ExitCode(run.state) > 0

controlInPlace_ByControls(r) == RowCount(r.Resources) > 0

\* ControlInPlace: r.Score == 0
controlInPlace(r) == r.Score = 0

addControl_CountEveryRow(s, control) ==
    IF "Control" \in DOMAIN control
    THEN [s EXCEPT !.NumberOfControls = @ + 1, !.Controls = Append(@, control["Control"])]
    ELSE [s EXCEPT !.NumberOfControls = @ + 1]

addControl_Prepend(s, control) ==
    IF "Control" \in DOMAIN control
    THEN [s EXCEPT !.NumberOfControls = @ + 1, !.Controls = <<control["Control"]>> \o @]
    ELSE s

\* The body of the loop over resource.Rows.
addControl(s, control) ==
    IF "Control" \in DOMAIN control
    THEN [s EXCEPT !.NumberOfControls = @ + 1, !.Controls = Append(@, control["Control"])]
    ELSE s

RECURSIVE addRows(_, _)
addRows(s, rows) ==
    IF rows = <<>> THEN s ELSE addRows(addControl(s, Head(rows)), Tail(rows))

RECURSIVE addResources(_, _)
addResources(s, resources) ==
    IF resources = <<>> THEN s
    ELSE addResources(addRows(s, Head(resources).Rows), Tail(resources))

\* The Summary of one parsed finding.
findingSummary(r) ==
    addResources([Repository |-> r.AffectedResource, Controls |-> <<>>,
                  ControlInPlace |-> controlInPlace(r), NumberOfControls |-> 0,
                  Error |-> <<>>],
                 r.Resources)

scanRepo(repo, run) ==
    IF runFailed(run)
    THEN << errorSummary(repo, << <<"error running Lava: ">>, run.err >>) >>
    ELSE LET u == jsonUnmarshal(run.stdout)
         IN  IF u.err # Nil
             THEN << errorSummary(repo, << <<"error unmarsalling Lava report: ">>, u.err >>) >>
             ELSE [i \in 1 .. Len(u.lr) |-> findingSummary(u.lr[i])]

(***************************************************************************)
(* config.LavaConfig and lava.NewClient                                    *)
(***************************************************************************)
\* The values the environment may give the concurrency ceilings.
ConfiguredConcurrency == -1 .. MaxConcurrency

LavaConfigs ==
    [ Token : {"", "s3cr3t"}, BaseURL : {"", "https://ghe.example"},
      Concurrency : ConfiguredConcurrency,
      BinaryPath : {"/usr/bin/lava", "/missing/lava"},
      CheckImage : {"", "vulcansec/vulcan-repository-sctrl"} ]

\* exec.LookPath(cfg.BinaryPath)
lookPathErr(path) == IF path = "/usr/bin/lava" THEN Nil ELSE <<"executable file not found">>

floorConcurrency_Negative(n) == IF n < 0 THEN 1 ELSE n

\* if cfg.Concurrency <= 0 { cfg.Concurrency = 1 }
floorConcurrency(n) == IF n <= 0 THEN 1 ELSE n

lavaNewClient(cfg) ==
    IF cfg.Token = "" THEN [err |-> <<"GitHub Enterprise token is required">>, cfg |-> cfg]
    ELSE IF cfg.BaseURL = "" THEN [err |-> <<"GitHub Enterprise API base URL is required">>, cfg |-> cfg]
    ELSE LET c == [cfg EXCEPT !.Concurrency = floorConcurrency(@)]
         IN  IF lookPathErr(c.BinaryPath) # Nil THEN [err |-> <<"failed to find Lava binary">>, cfg |-> c]
             ELSE IF c.CheckImage = "" THEN [err |-> <<"lava check image is required">>, cfg |-> c]
             ELSE [err |-> Nil, cfg |-> c]

(***************************************************************************)
(* config.GHEConfig and github.NewClient                                   *)
(***************************************************************************)
\* The filter policy the discovery stage is exercised with: the defaults of
\* config.GHEConfig, with a small size limit.
GhePolicies ==
    { [RepositorySizeLimit |-> 1000, IncludeArchived |-> FALSE, IncludeEmpty |-> FALSE,
       IncludeForks |-> FALSE, IncludeTemplates |-> FALSE, IncludeDisabled |-> FALSE,
       MinLastActivityDays |-> 0] }

GheConfigs ==
    { [Token |-> t, BaseURL |-> u, Concurrency |-> n, Policy |-> pol] :
      t \in {"", "s3cr3t"}, u \in {"", "https://ghe.example"},
      n \in ConfiguredConcurrency, pol \in GhePolicies }

\* github.NewClient; authErr is what client.Users.Get returned.
gheNewClient(cfg, authErr) ==
    IF cfg.Token = "" THEN [err |-> <<"GitHub Enterprise token is required">>, cfg |-> cfg]
    ELSE IF cfg.BaseURL = "" THEN [err |-> <<"GitHub Enterprise API base URL is required">>, cfg |-> cfg]
    ELSE LET c == [cfg EXCEPT !.Concurrency = floorConcurrency(@)]
         IN  IF authErr # Nil THEN [err |-> <<"failed to authenticate with GitHub: ">> \o authErr, cfg |-> c]
             ELSE [err |-> Nil, cfg |-> c]

(***************************************************************************)
(* The directory API: organizations, and pages of gh.Repository.           *)
(***************************************************************************)
\* A pointer field of gh.Repository: nil, or a value.
Ptr(v) == [nil |-> FALSE, v |-> v]

\* The login of the i-th organization.
OrgLogin(i) == <<"org", i>>

\* A repository the filter selects under every policy of GhePolicies.
ActiveRepo(org, name) ==
    [FullName |-> <<org, name>>, CloneURL |-> <<"https://ghe.example/", org, name, ".git">>,
     Size |-> Ptr(500), Archived |-> Ptr(FALSE), Disabled |-> Ptr(FALSE), Fork |-> Ptr(FALSE),
     IsTemplate |-> Ptr(FALSE), UpdatedAt |-> Ptr(95), PushedAt |-> Ptr(20)]

\* A repository above the size limit.
BigRepo(org, name) == [ActiveRepo(org, name) EXCEPT !.Size = Ptr(2000)]

\* An archived repository without recent activity.
StaleRepo(org, name) ==
    [ActiveRepo(org, name) EXCEPT !.Archived = Ptr(TRUE), !.UpdatedAt = Ptr(20)]

\* The pages the API may serve as page p of organization org.
PagesOf(org, p) ==
    { << BigRepo(org, <<"big", p>>), StaleRepo(org, <<"old", p>>), ActiveRepo(org, <<"repo", p>>) >> }

\* What one call of Repositories.ListByOrg for page p may return: repos, resp
\* (nil or a response with NextPage) and err.
ListResults(org, p) ==
    { [repos |-> repos, respNil |-> FALSE, NextPage |-> np, err |-> Nil] :
      repos \in PagesOf(org, p), np \in {0} \cup {q \in {p + 1} : q <= MaxPages} }
    \cup { [repos |-> <<>>, respNil |-> FALSE, NextPage |-> np, err |-> <<"500 Internal Server Error">>] :
           np \in {0, p + 1} }
    \cup { [repos |-> <<>>, respNil |-> TRUE, NextPage |-> 0, err |-> <<"dial tcp: connection refused">>] }

(***************************************************************************)
(* The repository filter of orgRepositories.                               *)
(***************************************************************************)
\* time.Now().AddDate(0, 0, -days), in days.
minLastActivityTS(now, days) == now - days

inactive_EitherStale(repo, pol, now) ==
    /\ pol.MinLastActivityDays > 0
    /\ \/ ~repo.UpdatedAt.nil /\ repo.UpdatedAt.v < minLastActivityTS(now, pol.MinLastActivityDays)
       \/ ~repo.PushedAt.nil /\ repo.PushedAt.v < minLastActivityTS(now, pol.MinLastActivityDays)

inactive_ThresholdNotTested(repo, pol, now) ==
    /\ ~repo.UpdatedAt.nil
    /\ repo.UpdatedAt.v < minLastActivityTS(now, pol.MinLastActivityDays)
    /\ ~repo.PushedAt.nil
    /\ repo.PushedAt.v < minLastActivityTS(now, pol.MinLastActivityDays)

\* if c.cfg.MinLastActivityDays > 0 { ...; if isUpdatedInactive && isPushedInactive
inactive(repo, pol, now) ==
    /\ pol.MinLastActivityDays > 0
    /\ ~repo.UpdatedAt.nil
    /\ repo.UpdatedAt.v < minLastActivityTS(now, pol.MinLastActivityDays)
    /\ ~repo.PushedAt.nil
    /\ repo.PushedAt.v < minLastActivityTS(now, pol.MinLastActivityDays)

tooBig_Reversed(repo, pol) == ~repo.Size.nil /\ repo.Size.v < pol.RepositorySizeLimit

\* repo.Size != nil && *repo.Size > c.cfg.RepositorySizeLimit
tooBig(repo, pol) == ~repo.Size.nil /\ repo.Size.v > pol.RepositorySizeLimit

emptyExcluded_FlagIgnored(repo, pol) == ~repo.Size.nil /\ repo.Size.v = 0

\* (repo.Size != nil && *repo.Size == 0) && !c.cfg.IncludeEmpty
emptyExcluded(repo, pol) == (~repo.Size.nil /\ repo.Size.v = 0) /\ ~pol.IncludeEmpty

\* The counter of repoMetrics the loop body increments for repo.
repoStatus(repo, pol, now) ==
    IF tooBig(repo, pol) THEN "too_big"
    ELSE IF emptyExcluded(repo, pol) THEN "empty"
    ELSE IF (~repo.Archived.nil /\ repo.Archived.v) /\ ~pol.IncludeArchived THEN "archived"
    ELSE IF (~repo.Disabled.nil /\ repo.Disabled.v) /\ ~pol.IncludeDisabled THEN "disabled"
    ELSE IF (~repo.Fork.nil /\ repo.Fork.v) /\ ~pol.IncludeForks THEN "fork"
    ELSE IF (~repo.IsTemplate.nil /\ repo.IsTemplate.v) /\ ~pol.IncludeTemplates THEN "template"
    ELSE IF inactive(repo, pol, now) THEN "inactive"
    ELSE "selected"

\* for _, repo := range repos { ...; allRepos = append(allRepos, *repo.CloneURL) }
RECURSIVE selectRepos(_, _, _, _)
selectRepos(allRepos, repos, pol, now) ==
    IF repos = <<>> THEN allRepos
    ELSE selectRepos(IF repoStatus(Head(repos), pol, now) = "selected"
                     THEN Append(allRepos, Head(repos).CloneURL)
                     ELSE allRepos,
                     Tail(repos), pol, now)

(***************************************************************************)
(* The scanner runs the scan stage is exercised with: one of each class.   *)
(***************************************************************************)
FindingWithControl ==
    [AffectedResource |-> "org1/repo1", Score |-> 0,
     Resources |-> << [Rows |-> << [k \in {"Control"} |-> "MFA"] >>] >>]

FindingWithoutControl ==
    [AffectedResource |-> "org2/repo2", Score |-> 7, Resources |-> <<>>]

ArrayOut(fs) == [kind |-> "array", findings |-> fs]

RunOf(ps, out) == [state |-> ps, err |-> cmdRunErr(ps), stdout |-> out]

ScanRuns ==
    { RunOf([kind |-> "exited", code |-> 1], [kind |-> "garbage", findings |-> <<>>]),
      RunOf([kind |-> "exited", code |-> 1], ArrayOut(<<FindingWithControl>>)),
      RunOf([kind |-> "signaled", code |-> -1], ArrayOut(<<FindingWithControl>>)),
      RunOf([kind |-> "exited", code |-> 0], [kind |-> "garbage", findings |-> <<>>]),
      RunOf([kind |-> "exited", code |-> 0], ArrayOut(<<>>)),
      RunOf([kind |-> "exited", code |-> 0], ArrayOut(<<FindingWithControl>>)),
      RunOf([kind |-> "exited", code |-> 0], ArrayOut(<<FindingWithControl, FindingWithoutControl>>)) }

(***************************************************************************)
(* State.                                                                  *)
(***************************************************************************)
VARIABLES
    srPc,       \* one scanRepo call: "idle", "call" or "returned"
    srRepo,     \* its target address
    srRun,      \* what cmd.Run left behind
    srOut       \* the Summaries it returned

srVars == <<srPc, srRepo, srRun, srOut>>

VARIABLES
    lavaEnv,        \* config.LavaConfig as loaded from the environment
    lavaCfg,        \* lava.Client.cfg
    targets,        \* the argument of Scan
    scanPc,         \* where Scan is: "idle", "spawn", "enqueue", "wait", "drain", "done"
    spawned,        \* the index i of the loop that starts the workers
    enqueued,       \* how many targets the loop over targets has sent
    jobsChan,       \* the buffered channel of addresses
    jobsClosed,     \* close(jobsChan)
    jobResultsChan, \* the buffered channel of Summary batches
    resultsClosed,  \* close(jobResultsChan)
    wg,             \* the sync.WaitGroup counter
    workers,        \* per worker: pc, the repo it holds, the summary it holds
    summary,        \* Scan's result
    jobOf,          \* history: the position in targets of the address a worker holds
    runOf,          \* history: the scanner run of each position in targets
    resultOf,       \* history: the position in targets of each batch of jobResultsChan
    summaryOf,      \* history: the position in targets of each Summary of summary
    pulls,          \* history: how many times each target was received from jobsChan
    scans           \* history: how many times the scanner ran for each target

scanVars == <<lavaEnv, lavaCfg, targets, scanPc, spawned, enqueued, jobsChan, jobsClosed,
              jobResultsChan, resultsClosed, wg, workers, summary, jobOf, runOf, resultOf,
              summaryOf, pulls, scans>>

VARIABLES
    gheEnv,          \* config.GHEConfig as loaded from the environment
    gheCfg,          \* github.Client.cfg
    now,             \* the day time.Now() returns
    enterpriseOrgs,  \* how many organizations the enterprise has
    targetOrg,       \* the argument of Repositories
    reposPc,         \* where Repositories is: "idle", "resolve", "spawn", "collect", "done", "failed"
    orgs,            \* the organizations to list
    sem,             \* how many slots of the semaphore channel are taken
    reposWg,         \* the sync.WaitGroup counter
    tasks,           \* per orgRepositories goroutine: pc, org, listOpts.Page, allRepos, the
                     \* err its loop ended on,
                     \* and slot: whether its send on sem went through and its receive has not
    closerPc,        \* the goroutine that closes reposResultChan: "unborn", "wait", "done"
    reposChanClosed, \* close(reposResultChan)
    selectedRepos,   \* Repositories' result
    crashed,         \* the process died of a panic in a goroutine
    served,          \* history: per task, the pages the API served it without error
    asked            \* history: per task, the ListByOrg calls it made: page asked, and
                     \* whether the call returned an error

reposVars == <<gheEnv, gheCfg, now, enterpriseOrgs, targetOrg, reposPc, orgs, sem, reposWg,
               tasks, closerPc, reposChanClosed, selectedRepos, crashed, served, asked>>

VARIABLES
    logPc,      \* one logged scan: "idle", "main", "scanRepo", "run", "ran", "scan", "done"
    logCfg,     \* config.Config as loaded from the environment
    logRepo,    \* the target address
    logRun,     \* what cmd.Run left behind, the bytes on standard error included
    log         \* the records handed to the logger, in order

logVars == <<logPc, logCfg, logRepo, logRun, log>>

VARIABLES
    fPc,        \* the filter on one repository: "idle", "eval"
    fRepo,      \* the gh.Repository the API listed
    fPol,       \* the filter policy of the client's config
    fNow,       \* the day time.Now() returns
    fOut        \* history: the evaluations made, each the day and the status it gave

filterVars == <<fPc, fRepo, fPol, fNow, fOut>>

VARIABLES
    ctxDone,    \* the run's context, main's ctx and each client's c.ctx, is cancelled
    calls       \* the blocking calls made: the operation, the context it was
                \* given and its state: "blocked", "returned" or "cancelled"

cancelVars == <<ctxDone, calls>>

VARIABLES
    mainPc,       \* where main is: "idle", "load", "metrics", "github", "lava", "call",
                  \* "repositories", "scan", "write", "exited"
    exitStatus,   \* the status the process exited with: 0, 1 (os.Exit(1)), 2 (panic)
    fatal,        \* history: the kind of failure the process exited on, or "none"
    failures,     \* history: the kinds of failure met so far
    reachedWrite  \* history: output.Write was called

mainVars == <<mainPc, exitStatus, fatal, failures, reachedWrite>>

VARIABLES
    outPc,        \* one call of output.Write: "idle", "call" or "returned"
    outFormat,    \* its format argument
    outFile,      \* its file argument
    outSummary,   \* its summary argument
    outCreateErr, \* the error os.Create will return, or Nil
    outWriteErr,  \* the error a write to the created file will return, or Nil
    outFs,        \* the file system: the file at each path, or NoFile
    outFsBefore,  \* history: the file system when Write was called
    outErr        \* the error it returned

outVars == <<outPc, outFormat, outFile, outSummary, outCreateErr, outWriteErr, outFs,
             outFsBefore, outErr>>

VARIABLES
    stPc,          \* one scanRepo call with persistence: "idle", "run", "store",
                   \* "classify" or "returned"
    stResultsPath, \* c.cfg.ResultsPath
    stTarget,      \* the target address
    stRun,         \* the scanner run, with what it wrote to standard error
    stFail,        \* the file-system call of storeResults that will fail, or "none"
    stFs,          \* the file system: the directories, and the file at each path
    stLog,         \* the messages storeResults logged
    stOut          \* the Summaries the call returned

storeVars == <<stPc, stResultsPath, stTarget, stRun, stFail, stFs, stLog, stOut>>

VARIABLES
    listing        \* one orgRepositories task, seen from its loop body: pc ("idle",
                   \* "range", "ended" or "panicked"), pol (the filter policy of
                   \* c.cfg), now, repoMetrics, allRepos, gauges (what it handed to
                   \* c.metrics.Gauge), sent (what it sent on resultChan), and the
                   \* history seen: the repositories whose pass of the loop body
                   \* completed, in order

listingVars == <<listing>>

vars == <<srVars, scanVars, reposVars, logVars, filterVars, cancelVars, mainVars, outVars, storeVars, listingVars>>

\* What a stage leaves alone: the variables of the other stages.
exceptSr == <<scanVars, reposVars, logVars, filterVars, cancelVars, mainVars, outVars, storeVars, listingVars>>
exceptScan == <<srVars, reposVars, logVars, filterVars, cancelVars, mainVars, outVars, storeVars, listingVars>>
exceptRepos == <<srVars, scanVars, logVars, filterVars, cancelVars, mainVars, outVars, storeVars, listingVars>>
exceptLog == <<srVars, scanVars, reposVars, filterVars, cancelVars, mainVars, outVars, storeVars, listingVars>>
exceptFilter == <<srVars, scanVars, reposVars, logVars, cancelVars, mainVars, outVars, storeVars, listingVars>>
exceptCancel == <<srVars, scanVars, reposVars, logVars, filterVars, mainVars, outVars, storeVars, listingVars>>
exceptMain == <<srVars, scanVars, logVars, filterVars, cancelVars, outVars, storeVars, listingVars>>
exceptOut == <<srVars, scanVars, reposVars, logVars, filterVars, cancelVars, mainVars, storeVars, listingVars>>
exceptStore == <<srVars, scanVars, reposVars, logVars, filterVars, cancelVars, mainVars, outVars, listingVars>>
exceptListing == <<srVars, scanVars, reposVars, logVars, filterVars, cancelVars, mainVars, outVars, storeVars>>

NoRun == [state |-> [kind |-> "notstarted", code |-> -1], err |-> Nil,
          stdout |-> [kind |-> "empty", findings |-> <<>>]]

SrIdle == srPc = "idle" /\ srRepo = "" /\ srRun = NoRun /\ srOut = <<>>

NoLavaConfig ==
    [Token |-> "", BaseURL |-> "", Concurrency |-> 0, BinaryPath |-> "", CheckImage |-> ""]

ScanIdle ==
    /\ lavaEnv = NoLavaConfig /\ lavaCfg = NoLavaConfig /\ targets = <<>>
    /\ scanPc = "idle" /\ spawned = 0 /\ enqueued = 0
    /\ jobsChan = <<>> /\ jobsClosed = FALSE
    /\ jobResultsChan = <<>> /\ resultsClosed = FALSE
    /\ wg = 0 /\ workers = <<>> /\ summary = <<>>
    /\ jobOf = <<>> /\ runOf = <<>> /\ resultOf = <<>> /\ summaryOf = <<>>
    /\ pulls = <<>> /\ scans = <<>>

NoGheConfig ==
    [Token |-> "", BaseURL |-> "", Concurrency |-> 0,
     Policy |-> [RepositorySizeLimit |-> 0, IncludeArchived |-> FALSE, IncludeEmpty |-> FALSE,
                 IncludeForks |-> FALSE, IncludeTemplates |-> FALSE, IncludeDisabled |-> FALSE,
                 MinLastActivityDays |-> 0]]

ReposIdle ==
    /\ gheEnv = NoGheConfig /\ gheCfg = NoGheConfig /\ now = 0
    /\ enterpriseOrgs = 0 /\ targetOrg = <<>>
    /\ reposPc = "idle" /\ orgs = <<>> /\ sem = 0 /\ reposWg = 0
    /\ tasks = <<>> /\ closerPc = "unborn" /\ reposChanClosed = FALSE
    /\ selectedRepos = <<>> /\ crashed = FALSE /\ served = <<>> /\ asked = <<>>

NoConfig ==
    [GHECfg |-> [Token |-> "", BaseURL |-> ""],
     LavaCfg |-> [Token |-> "", BaseURL |-> "", CheckImage |-> ""]]

LogIdle ==
    /\ logPc = "idle" /\ logCfg = NoConfig /\ logRepo = "" /\ logRun = NoRun /\ log = <<>>

CancelIdle == ctxDone = FALSE /\ calls = <<>>

\* No file at the path.
NoFile == [exists |-> FALSE, records |-> <<>>]

\* The paths the file system is followed at.
Paths == {"/tmp/reposec.csv"}

OutIdle ==
    /\ outPc = "idle" /\ outFormat = "" /\ outFile = "" /\ outSummary = <<>>
    /\ outCreateErr = Nil /\ outWriteErr = Nil /\ outErr = Nil
    /\ outFs = [p \in Paths |-> NoFile] /\ outFsBefore = outFs

\* The file paths storeResults can write: base, organization, repository, name.
StorePaths ==
    { <<"/results/", org, repo, name>> :
      org \in {"org1", "org2"}, repo \in {"repo1", "repo2", ""},
      name \in {"stdout.json", "stderr.log"} }

EmptyFs == [dirs |-> {}, files |-> [p \in StorePaths |-> NoFile]]

StoreIdle ==
    /\ stPc = "idle" /\ stResultsPath = "" /\ stTarget = "" /\ stRun = NoRun
    /\ stFail = "none" /\ stFs = EmptyFs /\ stLog = <<>> /\ stOut = <<>>

ListingIdle == listing = [pc |-> "idle"]

MainIdle ==
    /\ mainPc = "idle" /\ exitStatus = 0 /\ fatal = "none" /\ failures = {}
    /\ reachedWrite = FALSE

FilterIdle ==
    /\ fPc = "idle" /\ fRepo = ActiveRepo(OrgLogin(1), <<"repo", 1>>)
    /\ fPol = NoGheConfig.Policy /\ fNow = 0 /\ fOut = <<>>

(***************************************************************************)
(* SpecScanRepo: one call of scanRepo on any target and any scanner run.   *)
(***************************************************************************)
InitScanRepo ==
    /\ ListingIdle
    /\ StoreIdle
    /\ OutIdle
    /\ srPc = "call"
    /\ srRepo \in Addresses
    /\ srRun \in RunsOfSize(MaxReportSize)
    /\ srOut = <<>>
    /\ ScanIdle
    /\ ReposIdle
    /\ LogIdle
    /\ FilterIdle
    /\ CancelIdle
    /\ MainIdle

ScanRepoCall ==
    /\ srPc = "call"
    /\ srOut' = scanRepo(srRepo, srRun)
    /\ srPc' = "returned"
    /\ UNCHANGED <<srRepo, srRun, exceptSr>>

NextScanRepo == ScanRepoCall

SpecScanRepo == InitScanRepo /\ [][NextScanRepo]_vars

(***************************************************************************)
(* SpecScan: lava.Client.Scan and its workers.                             *)
(***************************************************************************)
\* The state when Scan is called on a client that lava.NewClient returned.
InitScan ==
    /\ ListingIdle
    /\ StoreIdle
    /\ OutIdle
    /\ SrIdle
    /\ ReposIdle
    /\ LogIdle
    /\ FilterIdle
    /\ CancelIdle
    /\ MainIdle
    /\ lavaEnv \in {c \in LavaConfigs : lavaNewClient(c).err = Nil}
    /\ lavaCfg = lavaNewClient(lavaEnv).cfg
    /\ targets \in SeqsUpTo(Addresses, MaxTargets)
    /\ scanPc = "spawn" /\ spawned = 0 /\ enqueued = 0
    /\ jobsChan = <<>> /\ jobsClosed = FALSE
    /\ jobResultsChan = <<>> /\ resultsClosed = FALSE
    /\ wg = 0
    /\ workers = <<>>
    /\ summary = <<>>
    /\ jobOf = <<>>
    /\ runOf = [i \in 1 .. Len(targets) |-> NoRun]
    /\ resultOf = <<>>
    /\ summaryOf = <<>>
    /\ pulls = [i \in 1 .. Len(targets) |-> 0]
    /\ scans = [i \in 1 .. Len(targets) |-> 0]

ChanCap_OneShort == Len(targets) - 1

\* cap(jobsChan) and cap(jobResultsChan): make(chan ..., len(targets))
ChanCap == Len(targets)

poolSize_PerTarget == Len(targets)

\* The bound of the loop that starts the workers: i < c.cfg.Concurrency
poolSize == lavaCfg.Concurrency

\* for i := 0; i < c.cfg.Concurrency; i++ { wg.Add(1); go c.worker(...) }
ScanSpawn ==
    /\ scanPc = "spawn" /\ spawned < poolSize
    /\ wg' = wg + 1
    /\ workers' = Append(workers, [pc |-> "recv", repo |-> "", summary |-> <<>>])
    /\ jobOf' = Append(jobOf, 0)
    /\ spawned' = spawned + 1
    /\ UNCHANGED <<exceptScan, lavaEnv, lavaCfg, targets, scanPc, enqueued, jobsChan, jobsClosed,
                   jobResultsChan, resultsClosed, summary, runOf, resultOf, summaryOf, pulls, scans>>

ScanSpawnDone ==
    /\ scanPc = "spawn" /\ ~(spawned < poolSize)
    /\ scanPc' = "enqueue"
    /\ UNCHANGED <<exceptScan, lavaEnv, lavaCfg, targets, spawned, enqueued, jobsChan, jobsClosed,
                   jobResultsChan, resultsClosed, wg, workers, summary, jobOf, runOf, resultOf, summaryOf, pulls, scans>>

rangeDone_OneShort == enqueued >= Len(targets) - 1

\* The loop over targets has sent every target.
rangeDone == enqueued = Len(targets)

\* for _, repo := range targets { jobsChan <- repo }
ScanEnqueue ==
    /\ scanPc = "enqueue" /\ enqueued < Len(targets)
    /\ Len(jobsChan) < ChanCap
    /\ jobsChan' = Append(jobsChan, targets[enqueued + 1])
    /\ enqueued' = enqueued + 1
    /\ UNCHANGED <<exceptScan, lavaEnv, lavaCfg, targets, scanPc, spawned, jobsClosed,
                   jobResultsChan, resultsClosed, wg, workers, summary, jobOf, runOf, resultOf, summaryOf, pulls, scans>>

\* close(jobsChan)
ScanCloseJobs ==
    /\ scanPc = "enqueue" /\ rangeDone
    /\ jobsClosed' = TRUE
    /\ scanPc' = "wait"
    /\ UNCHANGED <<exceptScan, lavaEnv, lavaCfg, targets, spawned, enqueued, jobsChan,
                   jobResultsChan, resultsClosed, wg, workers, summary, jobOf, runOf, resultOf, summaryOf, pulls, scans>>

waitReturns_AtOnce == TRUE

\* wg.Wait() returns when the counter is zero.
waitReturns == wg = 0

\* wg.Wait(); close(jobResultsChan)
ScanWait ==
    /\ scanPc = "wait" /\ waitReturns
    /\ resultsClosed' = TRUE
    /\ scanPc' = "drain"
    /\ UNCHANGED <<exceptScan, lavaEnv, lavaCfg, targets, spawned, enqueued, jobsChan, jobsClosed,
                   jobResultsChan, wg, workers, summary, jobOf, runOf, resultOf, summaryOf, pulls, scans>>

HasNoError(s) == s.Error = <<>>

appendBatch_SkipErrors(sum, rs) == sum \o SelectSeq(rs, HasNoError)

\* for _, s := range rs { summary = append(summary, s) }
appendBatch(sum, rs) == sum \o rs

\* for rs := range jobResultsChan { ... }
ScanDrain ==
    /\ scanPc = "drain" /\ jobResultsChan # <<>>
    /\ summary' = appendBatch(summary, Head(jobResultsChan))
    /\ jobResultsChan' = Tail(jobResultsChan)
    /\ resultOf' = Tail(resultOf)
    /\ summaryOf' = summaryOf \o [k \in 1 .. (Len(summary') - Len(summary)) |-> Head(resultOf)]
    /\ UNCHANGED <<exceptScan, lavaEnv, lavaCfg, targets, scanPc, spawned, enqueued, jobsChan,
                   jobsClosed, resultsClosed, wg, workers, jobOf, runOf, pulls, scans>>

\* return summary
ScanReturn ==
    /\ scanPc = "drain" /\ jobResultsChan = <<>> /\ resultsClosed
    /\ scanPc' = "done"
    /\ UNCHANGED <<exceptScan, lavaEnv, lavaCfg, targets, spawned, enqueued, jobsChan, jobsClosed,
                   jobResultsChan, resultsClosed, wg, workers, summary, jobOf, runOf, resultOf, summaryOf, pulls, scans>>

recvRest_Peek(q) == q

\* What a receive leaves in the channel: the value received is removed.
recvRest(q) == Tail(q)

\* for repo := range jobsChan: a receive; scanRepo then runs up to cmd.Run.
WorkerRecv(w) ==
    /\ workers[w].pc = "recv" /\ jobsChan # <<>>
    /\ workers' = [workers EXCEPT ![w].pc = "run", ![w].repo = Head(jobsChan)]
    /\ jobsChan' = recvRest(jobsChan)
    /\ jobOf' = [jobOf EXCEPT ![w] = enqueued - Len(jobsChan) + 1]
    /\ pulls' = [pulls EXCEPT ![enqueued - Len(jobsChan) + 1] = @ + 1]
    /\ UNCHANGED <<exceptScan, lavaEnv, lavaCfg, targets, scanPc, spawned, enqueued, jobsClosed,
                   jobResultsChan, resultsClosed, wg, summary, runOf, resultOf, summaryOf, scans>>

\* The child process ends and scanRepo returns its Summaries.
WorkerScanRepo(w) ==
    /\ workers[w].pc = "run"
    /\ \E run \in ScanRuns :
          /\ workers' = [workers EXCEPT ![w].pc = "send",
                                        ![w].summary = scanRepo(workers[w].repo, run)]
          /\ runOf' = [runOf EXCEPT ![jobOf[w]] = run]
    /\ scans' = [scans EXCEPT ![jobOf[w]] = @ + 1]
    /\ UNCHANGED <<exceptScan, lavaEnv, lavaCfg, targets, scanPc, spawned, enqueued, jobsChan,
                   jobsClosed, jobResultsChan, resultsClosed, wg, summary, jobOf, resultOf,
                   summaryOf, pulls>>

workerAfterSend_StopOnError(w) ==
    IF \E i \in 1 .. Len(workers[w].summary) : workers[w].summary[i].Error # <<>>
    THEN "exiting" ELSE "recv"

\* After jobResultsChan <- summary the loop goes back to the receive.
workerAfterSend(w) == "recv"

\* jobResultsChan <- summary
WorkerSend(w) ==
    /\ workers[w].pc = "send"
    /\ Len(jobResultsChan) < ChanCap
    /\ jobResultsChan' = Append(jobResultsChan, workers[w].summary)
    /\ resultOf' = Append(resultOf, jobOf[w])
    /\ workers' = [workers EXCEPT ![w].pc = workerAfterSend(w), ![w].repo = "", ![w].summary = <<>>]
    /\ jobOf' = [jobOf EXCEPT ![w] = 0]
    /\ UNCHANGED <<exceptScan, lavaEnv, lavaCfg, targets, scanPc, spawned, enqueued, jobsChan,
                   jobsClosed, resultsClosed, wg, summary, runOf, summaryOf, pulls, scans>>

\* The range loop ends on the closed, empty channel; defer wg.Done().
WorkerExit(w) ==
    /\ \/ workers[w].pc = "recv" /\ jobsChan = <<>> /\ jobsClosed
       \/ workers[w].pc = "exiting"
    /\ workers' = [workers EXCEPT ![w].pc = "exited"]
    /\ wg' = wg - 1
    /\ UNCHANGED <<exceptScan, lavaEnv, lavaCfg, targets, scanPc, spawned, enqueued, jobsChan,
                   jobsClosed, jobResultsChan, resultsClosed, summary, jobOf, runOf, resultOf, summaryOf, pulls, scans>>

NextScan ==
    \/ ScanSpawn
    \/ ScanSpawnDone
    \/ ScanEnqueue
    \/ ScanCloseJobs
    \/ ScanWait
    \/ ScanDrain
    \/ ScanReturn
    \/ \E w \in DOMAIN workers : WorkerRecv(w)
    \/ \E w \in DOMAIN workers : WorkerScanRepo(w)
    \/ \E w \in DOMAIN workers : WorkerSend(w)
    \/ \E w \in DOMAIN workers : WorkerExit(w)

SpecScan == InitScan /\ [][NextScan]_vars

\* The steps of the goroutine that called Scan.
ScanStep ==
    \/ ScanSpawn \/ ScanSpawnDone \/ ScanEnqueue \/ ScanCloseJobs
    \/ ScanWait \/ ScanDrain \/ ScanReturn

\* The steps of worker w, once it is started.
WorkerStep(w) ==
    /\ w \in DOMAIN workers
    /\ WorkerRecv(w) \/ WorkerScanRepo(w) \/ WorkerSend(w) \/ WorkerExit(w)

\* The runs followed under fairness, one for each kind of batch a worker
\* sends: an error Summary, no Summary, two Summaries.
FairRuns ==
    { RunOf([kind |-> "exited", code |-> 1], [kind |-> "garbage", findings |-> <<>>]),
      RunOf([kind |-> "exited", code |-> 0], ArrayOut(<<>>)),
      RunOf([kind |-> "exited", code |-> 0], ArrayOut(<<FindingWithControl, FindingWithoutControl>>)) }

RunIsFair == \A i \in DOMAIN runOf : runOf[i] \in FairRuns \cup {NoRun}

\* The Go scheduler runs every goroutine that can take a step, and every
\* scanner process ends, so that cmd.Run returns.
NextScanFair ==
    \/ ScanSpawn
    \/ ScanSpawnDone
    \/ ScanEnqueue
    \/ ScanCloseJobs
    \/ ScanWait
    \/ ScanDrain
    \/ ScanReturn
    \/ \E w \in DOMAIN workers : WorkerRecv(w)
    \/ \E w \in DOMAIN workers : WorkerScanRepo(w) /\ RunIsFair'
    \/ \E w \in DOMAIN workers : WorkerSend(w)
    \/ \E w \in DOMAIN workers : WorkerExit(w)

SpecScanFair ==
    /\ InitScan
    /\ [][NextScanFair]_vars
    /\ WF_vars(ScanStep)
    /\ \A w \in 1 .. MaxConcurrency : WF_vars(WorkerStep(w))

(***************************************************************************)
(* SpecRepos: github.Client.Repositories and its orgRepositories tasks.    *)
(***************************************************************************)
\* The state when Repositories is called on a client that github.NewClient
\* returned.
InitRepos ==
    /\ ListingIdle
    /\ StoreIdle
    /\ OutIdle
    /\ SrIdle
    /\ ScanIdle
    /\ LogIdle
    /\ FilterIdle
    /\ CancelIdle
    /\ MainIdle
    /\ gheEnv \in {c \in GheConfigs : gheNewClient(c, Nil).err = Nil}
    /\ gheCfg = gheNewClient(gheEnv, Nil).cfg
    /\ now = 100
    /\ enterpriseOrgs \in 0 .. MaxOrgs
    /\ targetOrg \in {<<>>} \cup {OrgLogin(i) : i \in 1 .. enterpriseOrgs}
    /\ reposPc = "resolve" /\ orgs = <<>> /\ sem = 0 /\ reposWg = 0
    /\ tasks = <<>> /\ closerPc = "unborn" /\ reposChanClosed = FALSE
    /\ selectedRepos = <<>> /\ crashed = FALSE /\ served = <<>> /\ asked = <<>>

\* cap(sem): make(chan struct{}, c.cfg.Concurrency)
SemCap == gheCfg.Concurrency

\* if targetOrg != "" { orgs = []string{targetOrg} } else { orgs, err = c.Organizations() }
ReposResolve ==
    /\ reposPc = "resolve" /\ ~crashed
    /\ \/ /\ targetOrg # <<>>
          /\ orgs' = <<targetOrg>>
          /\ reposPc' = "spawn"
       \/ /\ targetOrg = <<>>
          /\ orgs' = [i \in 1 .. enterpriseOrgs |-> OrgLogin(i)]
          /\ reposPc' = "spawn"
       \/ /\ targetOrg = <<>>
          /\ orgs' = <<>>
          /\ reposPc' = "failed"
    /\ UNCHANGED <<exceptRepos, gheEnv, gheCfg, now, enterpriseOrgs, targetOrg, sem, reposWg,
                   tasks, closerPc, reposChanClosed, selectedRepos, crashed, served, asked>>

\* for _, org := range orgs { wg.Add(1); go orgRepositories(c, org, &wg, sem, reposResultChan) }
ReposSpawn ==
    /\ reposPc = "spawn" /\ ~crashed
    /\ Len(tasks) < Len(orgs)
    /\ reposWg' = reposWg + 1
    /\ tasks' = Append(tasks, [pc |-> "acquire", org |-> orgs[Len(tasks) + 1], page |-> 0,
                               err |-> Nil, allRepos |-> <<>>, slot |-> FALSE])
    /\ served' = Append(served, <<>>)
    /\ asked' = Append(asked, <<>>)
    /\ UNCHANGED <<exceptRepos, gheEnv, gheCfg, now, enterpriseOrgs, targetOrg, reposPc, orgs,
                   sem, closerPc, reposChanClosed, selectedRepos, crashed>>

\* go func() { wg.Wait(); close(reposResultChan) }()
ReposSpawnCloser ==
    /\ reposPc = "spawn" /\ ~crashed
    /\ Len(tasks) = Len(orgs)
    /\ closerPc' = "wait"
    /\ reposPc' = "collect"
    /\ UNCHANGED <<exceptRepos, gheEnv, gheCfg, now, enterpriseOrgs, targetOrg, orgs, sem,
                   reposWg, tasks, reposChanClosed, selectedRepos, crashed, served, asked>>

\* wg.Wait(); close(reposResultChan)
CloserClose ==
    /\ closerPc = "wait" /\ ~crashed
    /\ reposWg = 0
    /\ reposChanClosed' = TRUE
    /\ closerPc' = "done"
    /\ UNCHANGED <<exceptRepos, gheEnv, gheCfg, now, enterpriseOrgs, targetOrg, reposPc, orgs,
                   sem, reposWg, tasks, selectedRepos, crashed, served, asked>>

\* The range over reposResultChan ends on the closed channel; return selectedRepos, nil
ReposReturn ==
    /\ reposPc = "collect" /\ ~crashed
    /\ reposChanClosed
    /\ reposPc' = "done"
    /\ UNCHANGED <<exceptRepos, gheEnv, gheCfg, now, enterpriseOrgs, targetOrg, orgs, sem,
                   reposWg, tasks, closerPc, reposChanClosed, selectedRepos, crashed, served, asked>>

semHasRoom_Unbounded == TRUE

\* A send on sem goes through while the channel's buffer has room.
semHasRoom == sem < SemCap

\* sem <- struct{}{}
TaskAcquire(t) ==
    /\ tasks[t].pc = "acquire" /\ ~crashed
    /\ semHasRoom
    /\ sem' = sem + 1
    /\ tasks' = [tasks EXCEPT ![t].pc = "list", ![t].slot = TRUE]
    /\ UNCHANGED <<exceptRepos, gheEnv, gheCfg, now, enterpriseOrgs, targetOrg, reposPc, orgs,
                   reposWg, closerPc, reposChanClosed, selectedRepos, crashed, served, asked>>

\* How many ListByOrg calls of the first n tasks returned an error.
RECURSIVE FailedCalls(_)
FailedCalls(n) ==
    IF n = 0 THEN 0
    ELSE FailedCalls(n - 1) + Cardinality({i \in DOMAIN asked[n] : asked[n][i].failed})

\* The page listOpts.Page asks for: page 0 is the first page.
pageAsked(t) == IF tasks[t].page = 0 THEN 1 ELSE tasks[t].page

\* One iteration of the loop around ListByOrg that does not panic.
TaskList(t) ==
    /\ tasks[t].pc = "list" /\ ~crashed
    /\ \E r \in ListResults(tasks[t].org, pageAsked(t)) :
          /\ ~(r.err # Nil /\ r.respNil)
          /\ asked' = [asked EXCEPT ![t] = Append(@, [page |-> pageAsked(t), failed |-> r.err # Nil])]
          /\ IF r.err # Nil /\ r.NextPage = 0
             THEN \* break
                  /\ tasks' = [tasks EXCEPT ![t].pc = "send", ![t].err = r.err]
                  /\ served' = served
             ELSE IF r.err # Nil /\ r.NextPage # 0
             THEN \* continue
                  /\ FailedCalls(Len(asked)) < MaxRetries
                  /\ tasks' = tasks
                  /\ served' = served
             ELSE /\ tasks' = [tasks EXCEPT
                                  ![t].allRepos = selectRepos(@, r.repos, gheCfg.Policy, now),
                                  ![t].pc = IF r.NextPage = 0 THEN "send" ELSE "list",
                                  ![t].page = IF r.NextPage = 0 THEN @ ELSE r.NextPage]
                  /\ served' = [served EXCEPT ![t] = Append(@, r.repos)]
    /\ UNCHANGED <<exceptRepos, gheEnv, gheCfg, now, enterpriseOrgs, targetOrg, reposPc, orgs,
                   sem, reposWg, closerPc, reposChanClosed, selectedRepos, crashed>>

\* ListByOrg returns an error and a nil response: resp.NextPage dereferences
\* nil and the goroutine panics.  Its deferred calls run (<-sem, wg.Done());
\* the other goroutines go on until the runtime ends the process.
TaskListPanic(t) ==
    /\ tasks[t].pc = "list" /\ ~crashed
    /\ \E r \in ListResults(tasks[t].org, pageAsked(t)) :
          /\ r.err # Nil /\ r.respNil
          /\ tasks' = [tasks EXCEPT ![t].pc = "panicked", ![t].err = r.err, ![t].slot = FALSE]
    /\ asked' = [asked EXCEPT ![t] = Append(@, [page |-> pageAsked(t), failed |-> TRUE])]
    /\ sem' = sem - 1
    /\ reposWg' = reposWg - 1
    /\ UNCHANGED <<exceptRepos, gheEnv, gheCfg, now, enterpriseOrgs, targetOrg, reposPc, orgs,
                   closerPc, reposChanClosed, selectedRepos, crashed, served>>

\* The runtime prints the panic and ends the process.
ProcessExit ==
    /\ ~crashed
    /\ \E t \in DOMAIN tasks : tasks[t].pc = "panicked"
    /\ crashed' = TRUE
    /\ UNCHANGED <<exceptRepos, gheEnv, gheCfg, now, enterpriseOrgs, targetOrg, reposPc, orgs,
                   sem, reposWg, tasks, closerPc, reposChanClosed, selectedRepos, served, asked>>

appendRepos_AroundTheRest(sel, repos) ==
    IF repos = <<>> THEN sel ELSE <<Head(repos)>> \o sel \o Tail(repos)

\* selectedRepos = append(selectedRepos, repos...)
appendRepos(sel, repos) == sel \o repos

\* resultChan <- allRepos, received by the range loop of Repositories
TaskSend(t) ==
    /\ tasks[t].pc = "send" /\ ~crashed
    /\ reposPc = "collect"
    /\ selectedRepos' = appendRepos(selectedRepos, tasks[t].allRepos)
    /\ tasks' = [tasks EXCEPT ![t].pc = "sent"]
    /\ UNCHANGED <<exceptRepos, gheEnv, gheCfg, now, enterpriseOrgs, targetOrg, reposPc, orgs,
                   sem, reposWg, closerPc, reposChanClosed, crashed, served, asked>>

\* The deferred calls of a task that returns: <-sem, then wg.Done()
TaskReturn(t) ==
    /\ tasks[t].pc = "sent" /\ ~crashed
    /\ sem' = sem - 1
    /\ reposWg' = reposWg - 1
    /\ tasks' = [tasks EXCEPT ![t].pc = "done", ![t].slot = FALSE]
    /\ UNCHANGED <<exceptRepos, gheEnv, gheCfg, now, enterpriseOrgs, targetOrg, reposPc, orgs,
                   closerPc, reposChanClosed, selectedRepos, crashed, served, asked>>

NextRepos ==
    \/ ReposResolve
    \/ ReposSpawn
    \/ ReposSpawnCloser
    \/ CloserClose
    \/ ReposReturn
    \/ \E t \in DOMAIN tasks : TaskAcquire(t)
    \/ \E t \in DOMAIN tasks : TaskList(t)
    \/ \E t \in DOMAIN tasks : TaskListPanic(t)
    \/ ProcessExit
    \/ \E t \in DOMAIN tasks : TaskSend(t)
    \/ \E t \in DOMAIN tasks : TaskReturn(t)

SpecRepos == InitRepos /\ [][NextRepos]_vars

(***************************************************************************)
(* SpecLog: what main and the scan of one repository hand to the logger.   *)
(* A text is the sequence of its pieces; a record is its message and the   *)
(* texts of its attributes.                                                *)
(***************************************************************************)
\* The values GHE_TOKEN may have.
Tokens == {"ghp_1111", "ghp_2222"}

\* config.Load: GHECfg.Token and LavaCfg.Token both come from GHE_TOKEN.
Configs ==
    { [GHECfg |-> [Token |-> t, BaseURL |-> "https://ghe.example"],
       LavaCfg |-> [Token |-> t, BaseURL |-> "https://ghe.example",
                    CheckImage |-> "vulcansec/vulcan-repository-sctrl"]] : t \in Tokens }

\* Config.Redacted
Redacted(c) == [c EXCEPT !.GHECfg.Token = "REDACTED", !.LavaCfg.Token = "REDACTED"]

\* strings.Replace(s, old, new, -1)
stringsReplace(s, old, new) == [i \in DOMAIN s |-> IF s[i] = old THEN new ELSE s[i]]

\* strings.Join(lavaCmdArgs, " ")
lavaCmdArgs(cfg, repo) ==
    << "run", "-var", "GITHUB_ENTERPRISE_ENDPOINT=", cfg.BaseURL,
       "-var", "GITHUB_ENTERPRISE_TOKEN=", cfg.Token,
       "-type=GitRepository", "-show", "info", "-fmt=json", cfg.CheckImage, repo >>

\* What the scanner, which was handed the token, may write to standard error.
Stderrs(cfg) ==
    { <<>>,
      <<"fatal: repository not found">>,
      <<"fatal: unable to access https://x-access-token:", cfg.Token, "@ghe.example/">> }

\* The scanner runs of the logged scan.
LogRuns(cfg) ==
    { [state |-> r.state, err |-> r.err, stdout |-> r.stdout, stderr |-> e] :
      r \in ScanRuns, e \in Stderrs(cfg) }

\* outBuf.String()
outBufString(run) == <<run.stdout.kind>>

InitLog ==
    /\ ListingIdle
    /\ StoreIdle
    /\ OutIdle
    /\ SrIdle /\ ScanIdle /\ ReposIdle /\ FilterIdle /\ CancelIdle /\ MainIdle
    /\ logPc = "main"
    /\ logCfg \in Configs
    /\ logRepo \in Addresses
    /\ logRun = NoRun
    /\ log = <<>>

\* logger.Info("configuration", "config", cfg.Redacted())
MainLogConfig ==
    /\ logPc = "main"
    /\ LET c == Redacted(logCfg)
       IN  log' = Append(log, [msg |-> "configuration",
                               texts |-> << <<c.GHECfg.Token, c.GHECfg.BaseURL>>,
                                            <<c.LavaCfg.Token, c.LavaCfg.BaseURL, c.LavaCfg.CheckImage>> >>])
    /\ logPc' = "scanRepo"
    /\ UNCHANGED <<exceptLog, logCfg, logRepo, logRun>>

\* c.logger.Debug("scan repository command", "repository", repo, "args", ...)
ScanRepoLogCommand ==
    /\ logPc = "scanRepo"
    /\ log' = Append(log, [msg |-> "scan repository command",
                           texts |-> << <<logRepo>>,
                                        stringsReplace(lavaCmdArgs(logCfg.LavaCfg, logRepo),
                                                       logCfg.LavaCfg.Token, "REDACTED") >>])
    /\ logPc' = "run"
    /\ UNCHANGED <<exceptLog, logCfg, logRepo, logRun>>

\* err := cmd.Run()
ScanRepoRun ==
    /\ logPc = "run"
    /\ logRun' \in LogRuns(logCfg.LavaCfg)
    /\ logPc' = "ran"
    /\ UNCHANGED <<exceptLog, logCfg, logRepo, log>>

\* The record scanRepo logs for the outcome of the run.
outcomeRecord(repo, run) ==
    IF runFailed(run)
    THEN [msg |-> "failed to run Lava", texts |-> << <<repo>>, run.stderr, outBufString(run) >>]
    ELSE IF jsonUnmarshal(run.stdout).err # Nil
    THEN [msg |-> "failed to unmarshal Lava report",
          texts |-> << <<repo>>, run.stderr, outBufString(run) >>]
    ELSE [msg |-> "repository scan completed successfully", texts |-> << <<repo>> >>]

ScanRepoLogOutcome ==
    /\ logPc = "ran"
    /\ log' = Append(log, outcomeRecord(logRepo, logRun))
    /\ logPc' = "scan"
    /\ UNCHANGED <<exceptLog, logCfg, logRepo, logRun>>

\* Scan: c.logger.Info("live repository summary", "repository", s.Repository, ...)
ScanLogSummaries ==
    /\ logPc = "scan"
    /\ LET rs == scanRepo(logRepo, logRun)
       IN  log' = log \o [i \in 1 .. Len(rs) |->
                            [msg |-> "live repository summary",
                             texts |-> << <<rs[i].Repository>>, rs[i].Controls >>]]
    /\ logPc' = "done"
    /\ UNCHANGED <<exceptLog, logCfg, logRepo, logRun>>

NextLog ==
    \/ MainLogConfig
    \/ ScanRepoLogCommand
    \/ ScanRepoRun
    \/ ScanRepoLogOutcome
    \/ ScanLogSummaries

SpecLog == InitLog /\ [][NextLog]_vars

(***************************************************************************)
(* SpecFilter: the filter of orgRepositories on one listed repository,     *)
(* evaluated at one moment of a run and again at a later one.              *)
(***************************************************************************)
\* A pointer field of gh.Repository over the values vs: nil, or one of them.
PtrsTo(vs) == {[nil |-> TRUE, v |-> CHOOSE x \in vs : TRUE]} \cup {Ptr(x) : x \in vs}

\* The day the first evaluation is made.
FirstDay == 100

\* Size in kB: empty, below the ceiling, above it.
Sizes == {0, 500, 2000}

\* Days of last update and last push: long ago, a few days ago, and the day of
\* the first evaluation.
Timestamps == {85, 95, FirstDay}

\* The gh.Repository values the API may list.
Repositories ==
    { [FullName |-> <<OrgLogin(1), <<"repo", 1>> >>,
       CloneURL |-> <<"https://ghe.example/", OrgLogin(1), <<"repo", 1>>, ".git">>,
       Size |-> sz, Archived |-> ar, Disabled |-> di, Fork |-> fo, IsTemplate |-> te,
       UpdatedAt |-> up, PushedAt |-> pu] :
      sz \in PtrsTo(Sizes), ar \in PtrsTo(BOOLEAN), di \in PtrsTo(BOOLEAN),
      fo \in PtrsTo(BOOLEAN), te \in PtrsTo(BOOLEAN),
      up \in PtrsTo(Timestamps), pu \in PtrsTo(Timestamps) }

\* The filter policies of config.GHEConfig: the environment may give any
\* integer as the size ceiling and as the threshold.
Policies ==
    [ RepositorySizeLimit : {-1, 1000}, IncludeArchived : BOOLEAN, IncludeEmpty : BOOLEAN,
      IncludeForks : BOOLEAN, IncludeTemplates : BOOLEAN, IncludeDisabled : BOOLEAN,
      MinLastActivityDays : {0, 10} ]

InitFilter ==
    /\ ListingIdle
    /\ StoreIdle
    /\ OutIdle
    /\ SrIdle /\ ScanIdle /\ ReposIdle /\ LogIdle /\ CancelIdle /\ MainIdle
    /\ fPc = "eval"
    /\ fRepo \in Repositories
    /\ fPol \in Policies
    /\ fNow = FirstDay
    /\ fOut = <<>>

\* One pass of the loop body over fRepo; time.Now() has not gone back since
\* the pass before.
FilterEval ==
    /\ fPc = "eval"
    /\ Len(fOut) < MaxEvaluations
    /\ fNow' \in {fNow, FirstDay + MaxElapsedDays}
    /\ fOut' = Append(fOut, [now |-> fNow', status |-> repoStatus(fRepo, fPol, fNow')])
    /\ UNCHANGED <<exceptFilter, fPc, fRepo, fPol>>

NextFilter == FilterEval

SpecFilter == InitFilter /\ [][NextFilter]_vars

(***************************************************************************)
(* SpecCancel: the blocking calls of a run and the context each is bound   *)
(* to, with the run's context cancelled at any moment.                     *)
(***************************************************************************)
InitCancel ==
    /\ ListingIdle
    /\ StoreIdle
    /\ OutIdle
    /\ SrIdle /\ ScanIdle /\ ReposIdle /\ LogIdle /\ FilterIdle /\ MainIdle
    /\ ctxDone = FALSE
    /\ calls = <<>>

\* Whether the Done channel of a context is closed: context.Background() is
\* never cancelled; a context derived with context.WithValue is done when its
\* parent is.
Done(ctx) == IF ctx = "Background" THEN FALSE ELSE ctxDone

\* The call is made with the context and blocks.
Block(op, ctx) ==
    /\ Len(calls) < MaxCalls
    /\ calls' = Append(calls, [op |-> op, ctx |-> ctx, state |-> "blocked"])
    /\ UNCHANGED <<exceptCancel, ctxDone>>

\* Organizations: c.client.Organizations.ListAll(context.WithValue(context.Background(), ...), orgsOpts)
OrganizationsListAll == Block("Organizations.ListAll", "Background")

\* orgRepositories: c.client.Repositories.ListByOrg(context.WithValue(c.ctx, ...), org, listOpts)
OrgRepositoriesListByOrg == Block("Repositories.ListByOrg", "c.ctx")

\* scanRepo: cmd := exec.CommandContext(c.ctx, ...); err := cmd.Run()
ScanRepoCmdRun == Block("cmd.Run", "c.ctx")

\* The run's context is cancelled.
CtxCancel ==
    /\ ~ctxDone
    /\ ctxDone' = TRUE
    /\ UNCHANGED <<exceptCancel, calls>>

\* The server answers, the rate limit resets, or the child process exits.
CallReturns(i) ==
    /\ calls[i].state = "blocked"
    /\ calls' = [calls EXCEPT ![i].state = "returned"]
    /\ UNCHANGED <<exceptCancel, ctxDone>>

\* The call sees its context done: the API call returns the context's error,
\* the child process is killed.
CallCancelled(i) ==
    /\ calls[i].state = "blocked"
    /\ Done(calls[i].ctx)
    /\ calls' = [calls EXCEPT ![i].state = "cancelled"]
    /\ UNCHANGED <<exceptCancel, ctxDone>>

NextCancel ==
    \/ OrganizationsListAll
    \/ OrgRepositoriesListByOrg
    \/ ScanRepoCmdRun
    \/ CtxCancel
    \/ \E i \in DOMAIN calls : CallReturns(i)
    \/ \E i \in DOMAIN calls : CallCancelled(i)

SpecCancel == InitCancel /\ [][NextCancel]_vars

(***************************************************************************)
(* SpecMain: main, from config.Load to the exit of the process, with       *)
(* Repositories running as in SpecRepos.                                   *)
(***************************************************************************)
InitMain ==
    /\ ListingIdle
    /\ StoreIdle
    /\ OutIdle
    /\ SrIdle /\ ScanIdle /\ ReposIdle /\ LogIdle /\ FilterIdle /\ CancelIdle
    /\ mainPc = "load" /\ exitStatus = 0 /\ fatal = "none" /\ failures = {}
    /\ reachedWrite = FALSE

\* logger.Error(...); os.Exit(1) after a failure of the kind.
Exit1(kind) ==
    /\ mainPc' = "exited"
    /\ exitStatus' = 1
    /\ fatal' = kind
    /\ failures' = failures \cup {kind}
    /\ UNCHANGED reachedWrite

\* cfg, err := config.Load(): a required variable is missing, or all is there.
MainLoad ==
    /\ mainPc = "load"
    /\ \/ Exit1("config")
       \/ mainPc' = "metrics" /\ UNCHANGED <<exitStatus, fatal, failures, reachedWrite>>
    /\ UNCHANGED <<exceptMain, reposVars>>

\* metrics.NewClient: statsd.New fails on the configured address, or not.
MainNewMetricsClient ==
    /\ mainPc = "metrics"
    /\ \/ Exit1("config")
       \/ mainPc' = "github" /\ UNCHANGED <<exitStatus, fatal, failures, reachedWrite>>
    /\ UNCHANGED <<exceptMain, reposVars>>

\* What client.Users.Get may return in github.NewClient.
AuthErrs == {Nil, <<"401 Bad credentials">>}

\* cli, err := github.NewClient(ctx, &logger, metrics, cfg.GHECfg)
MainNewGithubClient ==
    /\ mainPc = "github"
    /\ \E cfg \in GheConfigs, authErr \in AuthErrs :
          LET r == gheNewClient(cfg, authErr)
          IN  IF r.err # Nil
              THEN /\ Exit1(IF gheNewClient(cfg, Nil).err # Nil THEN "config" ELSE "auth")
                   /\ UNCHANGED <<gheEnv, gheCfg>>
              ELSE /\ gheEnv' = cfg
                   /\ gheCfg' = r.cfg
                   /\ mainPc' = "lava"
                   /\ UNCHANGED <<exitStatus, fatal, failures, reachedWrite>>
    /\ UNCHANGED <<exceptMain, now, enterpriseOrgs, targetOrg, reposPc, orgs, sem, reposWg,
                   tasks, closerPc, reposChanClosed, selectedRepos, crashed, served, asked>>

\* lava, err := lava.NewClient(ctx, &logger, cfg.LavaCfg)
MainNewLavaClient ==
    /\ mainPc = "lava"
    /\ \E cfg \in LavaConfigs :
          IF lavaNewClient(cfg).err # Nil
          THEN Exit1("config")
          ELSE mainPc' = "call" /\ UNCHANGED <<exitStatus, fatal, failures, reachedWrite>>
    /\ UNCHANGED <<exceptMain, reposVars>>

\* repos, err := cli.Repositories(cfg.TargetOrg): the call
MainCallRepositories ==
    /\ mainPc = "call"
    /\ now' = 100
    /\ enterpriseOrgs' \in 1 .. MaxOrgs
    /\ targetOrg' \in {<<>>} \cup {OrgLogin(i) : i \in 1 .. enterpriseOrgs'}
    /\ reposPc' = "resolve"
    /\ mainPc' = "repositories"
    /\ UNCHANGED <<exceptMain, exitStatus, fatal, failures, reachedWrite, gheEnv, gheCfg, orgs,
                   sem, reposWg, tasks, closerPc, reposChanClosed, selectedRepos, crashed,
                   served, asked>>

\* The kinds of failure Repositories met and kept to itself.
listingFailures == IF \E t \in DOMAIN tasks : tasks[t].err # Nil THEN {"repository listing"} ELSE {}

\* repos, err := cli.Repositories(cfg.TargetOrg): the return, and
\* if err != nil { ...; os.Exit(1) }
MainRepositoriesReturns ==
    /\ mainPc = "repositories" /\ ~crashed
    /\ \/ /\ reposPc = "done"
          /\ mainPc' = "scan"
          /\ failures' = failures \cup listingFailures
          /\ UNCHANGED <<exitStatus, fatal, reachedWrite>>
       \/ /\ reposPc = "failed"
          /\ Exit1("organization listing")
    /\ UNCHANGED <<exceptMain, reposVars>>

\* A goroutine of Repositories panicked: the runtime prints the panic and the
\* process exits with status 2.
MainPanics ==
    /\ mainPc \in {"repositories", "scan", "write"} /\ crashed
    /\ mainPc' = "exited"
    /\ exitStatus' = 2
    /\ fatal' = "repository listing"
    /\ failures' = failures \cup {"repository listing"}
    /\ UNCHANGED <<exceptMain, reposVars, reachedWrite>>

\* The kinds of failure the scan of one target met: the scanner run, its
\* output, and the writing of the raw results by storeResults.
scanFailures(run, storeErr) ==
    (IF runFailed(run) THEN {"scanner invocation"}
     ELSE IF jsonUnmarshal(run.stdout).err # Nil THEN {"scanner output"} ELSE {})
    \cup (IF storeErr THEN {"raw-result persistence"} ELSE {})

\* summary := lava.Scan(repos); pushSummaryMetrics(metrics, summary)
MainScan ==
    /\ mainPc = "scan" /\ ~crashed
    /\ IF selectedRepos = <<>>
       THEN failures' = failures
       ELSE \E run \in ScanRuns, storeErr \in BOOLEAN :
               failures' = failures \cup scanFailures(run, storeErr)
    /\ mainPc' = "write"
    /\ UNCHANGED <<exceptMain, reposVars, exitStatus, fatal, reachedWrite>>

\* err = output.Write(cfg.OutputFormat, cfg.OutputFilePath, summary), and the
\* end of main.
MainWrite ==
    /\ mainPc = "write" /\ ~crashed
    /\ reachedWrite' = TRUE
    /\ \/ /\ mainPc' = "exited"
          /\ exitStatus' = 1
          /\ fatal' = "output write"
          /\ failures' = failures \cup {"output write"}
       \/ /\ mainPc' = "exited"
          /\ UNCHANGED <<exitStatus, fatal, failures>>
    /\ UNCHANGED <<exceptMain, reposVars>>

NextMain ==
    \/ MainLoad
    \/ MainNewMetricsClient
    \/ MainNewGithubClient
    \/ MainNewLavaClient
    \/ MainCallRepositories
    \/ NextRepos
    \/ MainRepositoriesReturns
    \/ MainPanics
    \/ MainScan
    \/ MainWrite

SpecMain == InitMain /\ [][NextMain]_vars

(***************************************************************************)
(* SpecWrite: one call of output.Write.                                    *)
(***************************************************************************)
ErrUnsupportedFormat == <<"unsupported format">>

ErrOutputFileRequired == <<"output file is required and was not provided">>

\* The values the format argument is drawn from.
Formats == {"csv", "CSV", "json", "Json", "xml", ""}

\* strings.ToLower on those values.
toLower(format) ==
    CASE format = "CSV"  -> "csv"
      [] format = "Json" -> "json"
      [] OTHER           -> format

\* The summaries Write is called with: none, a successful scan, a failed one.
OutSummaries ==
    { <<>>,
      << [Repository |-> "org1/repo1", Controls |-> <<"MFA", "BranchProtection">>,
          ControlInPlace |-> TRUE, NumberOfControls |-> 2, Error |-> ""] >>,
      << [Repository |-> "org1/repo1", Controls |-> <<"MFA">>,
          ControlInPlace |-> TRUE, NumberOfControls |-> 1, Error |-> ""],
         [Repository |-> "https://ghe.example/org2/repo2", Controls |-> <<>>,
          ControlInPlace |-> FALSE, NumberOfControls |-> 0,
          Error |-> "error running Lava: exit status 1"] >> }

\* A report an earlier run left at the path.
OldFile == [exists |-> TRUE, records |-> << <<"repository">>, <<"org9/repo9">> >>]

\* strconv.FormatBool
FormatBool(b) == IF b THEN "true" ELSE "false"

Digits == <<"0", "1", "2", "3", "4", "5", "6", "7", "8", "9">>

\* strconv.Itoa for a count, which is never negative.
RECURSIVE Itoa(_)
Itoa(n) == IF n < 10 THEN Digits[n + 1] ELSE Itoa(n \div 10) \o Digits[(n % 10) + 1]

\* strings.Join
RECURSIVE Join(_, _)
Join(elems, sep) ==
    IF elems = <<>> THEN ""
    ELSE IF Len(elems) = 1 THEN elems[1]
    ELSE elems[1] \o sep \o Join(Tail(elems), sep)

csvHeader == <<"repository", "control_in_place", "number_of_controls", "controls", "error">>

csvRecord(s) ==
    <<s.Repository, FormatBool(s.ControlInPlace), Itoa(s.NumberOfControls),
      Join(s.Controls, "#"), s.Error>>

\* The records the csv writer holds when Write returns and its deferred Flush runs.
csvRecords(sums) == <<csvHeader>> \o [i \in 1 .. Len(sums) |-> csvRecord(sums[i])]

\* A nil slice is encoded as null, any other as an array.
jsonControls(cs) ==
    IF cs = <<>> THEN "null"
    ELSE "[" \o Join([i \in 1 .. Len(cs) |-> "\"" \o cs[i] \o "\""], ",") \o "]"

jsonObject(s) ==
    <<s.Repository, jsonControls(s.Controls), FormatBool(s.ControlInPlace),
      Itoa(s.NumberOfControls), s.Error>>

\* encoder.Encode(summary)
jsonRecords(sums) ==
    IF sums = <<>> THEN << <<"null">> >>
    ELSE [i \in 1 .. Len(sums) |-> jsonObject(sums[i])]

\* os.Create creates the file, or truncates the one that is there.
osCreate(fs, file) == [fs EXCEPT ![file] = [exists |-> TRUE, records |-> <<>>]]

\* The file system and the error when Write returns.
Write(format, file, sums, createErr, writeErr, fs) ==
    IF file = "" THEN [fs |-> fs, err |-> ErrOutputFileRequired]
    ELSE IF createErr # Nil THEN [fs |-> fs, err |-> createErr]
    ELSE LET created == osCreate(fs, file)
         IN  CASE toLower(format) = "csv" ->
                    \* the records are buffered; the deferred Flush drops its error
                    IF writeErr # Nil THEN [fs |-> created, err |-> Nil]
                    ELSE [fs |-> [created EXCEPT ![file].records = csvRecords(sums)],
                          err |-> Nil]
               [] toLower(format) = "json" ->
                    IF writeErr # Nil THEN [fs |-> created, err |-> writeErr]
                    ELSE [fs |-> [created EXCEPT ![file].records = jsonRecords(sums)],
                          err |-> Nil]
               [] OTHER -> [fs |-> created, err |-> ErrUnsupportedFormat]

InitWrite ==
    /\ ListingIdle
    /\ StoreIdle
    /\ SrIdle /\ ScanIdle /\ ReposIdle /\ LogIdle /\ FilterIdle /\ CancelIdle /\ MainIdle
    /\ outPc = "call"
    /\ outFormat \in Formats
    /\ outFile \in {""} \cup Paths
    /\ outSummary \in OutSummaries
    /\ outCreateErr \in {Nil, <<"open: permission denied">>}
    /\ outWriteErr \in {Nil, <<"write: no space left on device">>}
    /\ outFs \in [Paths -> {NoFile, OldFile}]
    /\ outFsBefore = outFs
    /\ outErr = Nil

OutputWrite ==
    /\ outPc = "call"
    /\ LET r == Write(outFormat, outFile, outSummary, outCreateErr, outWriteErr, outFs)
       IN  outFs' = r.fs /\ outErr' = r.err
    /\ outPc' = "returned"
    /\ UNCHANGED <<exceptOut, outFormat, outFile, outSummary, outCreateErr, outWriteErr,
                   outFsBefore>>

NextWrite == OutputWrite

SpecWrite == InitWrite /\ [][NextWrite]_vars

(***************************************************************************)
(* SpecStore: one scanRepo call with the raw results stored by             *)
(* storeResults.                                                           *)
(***************************************************************************)
\* The target addresses of the stage: two clone addresses, addresses with a
\* doubled or a trailing slash, with one path segment, with none, and one
\* url.Parse rejects.
StoreTargets ==
    {"https://ghe.example/org1/repo1", "https://ghe.example/org2/repo2",
     "https://ghe.example/org1//repo1", "https://ghe.example//org1/repo1/",
     "https://ghe.example/org1//", "https://ghe.example/org1",
     "https://ghe.example", ":ghe.example/org1/repo1"}

\* url.Parse(target): the error, or the Path of the URL, character by
\* character, a name standing for its characters.
urlParse(target) ==
    CASE target = "https://ghe.example/org1/repo1" ->
             [err |-> Nil, Path |-> <<"/", "org1", "/", "repo1">>]
      [] target = "https://ghe.example/org2/repo2" ->
             [err |-> Nil, Path |-> <<"/", "org2", "/", "repo2">>]
      [] target = "https://ghe.example/org1//repo1" ->
             [err |-> Nil, Path |-> <<"/", "org1", "/", "/", "repo1">>]
      [] target = "https://ghe.example//org1/repo1/" ->
             [err |-> Nil, Path |-> <<"/", "/", "org1", "/", "repo1", "/">>]
      [] target = "https://ghe.example/org1//" ->
             [err |-> Nil, Path |-> <<"/", "org1", "/", "/">>]
      [] target = "https://ghe.example/org1" ->
             [err |-> Nil, Path |-> <<"/", "org1">>]
      [] target = "https://ghe.example" ->
             [err |-> Nil, Path |-> <<>>]
      [] OTHER -> [err |-> <<"missing protocol scheme">>, Path |-> <<>>]

\* strings.TrimLeft(s, c)
RECURSIVE trimLeft(_, _)
trimLeft(s, c) == IF s # <<>> /\ Head(s) = c THEN trimLeft(Tail(s), c) ELSE s

\* strings.TrimRight(s, c)
RECURSIVE trimRight(_, _)
trimRight(s, c) ==
    IF s # <<>> /\ s[Len(s)] = c THEN trimRight(SubSeq(s, 1, Len(s) - 1), c) ELSE s

\* strings.Trim(s, c)
stringsTrim(s, c) == trimRight(trimLeft(s, c), c)

\* strings.Split(s, sep) with the segment read so far: every separator ends
\* a segment, an empty one too, and the rest of s is the last segment.
RECURSIVE splitFrom(_, _, _)
splitFrom(s, sep, segment) ==
    IF s = <<>> THEN <<segment>>
    ELSE IF Head(s) = sep THEN <<segment>> \o splitFrom(Tail(s), sep, "")
    ELSE splitFrom(Tail(s), sep, segment \o Head(s))

stringsSplit(s, sep) == splitFrom(s, sep, "")

\* strings.Split(strings.Trim(parsedURL.Path, "/"), "/")
pathParts(path) == stringsSplit(stringsTrim(path, "/"), "/")

orgAndRepo(target) ==
    LET u == urlParse(target)
    IN  IF u.err # Nil
        THEN [org |-> "", repo |-> "", err |-> <<"invalid URL: ">> \o u.err]
        ELSE IF Len(pathParts(u.Path)) < 2
        THEN [org |-> "", repo |-> "", err |-> <<"invalid GitHub URL path: ", u.Path>>]
        ELSE [org |-> pathParts(u.Path)[1], repo |-> pathParts(u.Path)[2], err |-> Nil]

\* The file-system calls of storeResults that may fail.  os.WriteFile fails
\* when it opens the file, which is then left as it was, or when it writes,
\* after it has truncated the file.
StoreFailures ==
    {"none", "mkdir", "open stdout", "write stdout", "open stderr", "write stderr"}

\* What the scanner wrote to standard error.
StoreStderrs == {<<>>, <<"time=... level=error msg=...">>}

StoreRuns ==
    { [state |-> r.state, err |-> r.err, stdout |-> r.stdout, stderr |-> e] :
      r \in ScanRuns, e \in StoreStderrs }

\* A file with the bytes given.
FileOf(bytes) == [exists |-> TRUE, records |-> <<bytes>>]

TruncatedFile == [exists |-> TRUE, records |-> <<>>]

\* os.WriteFile(path, bytes, 0644) on the files fs; failure is "open",
\* "write" or "none".
osWriteFile(files, path, bytes, failure) ==
    CASE failure = "open"  -> files
      [] failure = "write" -> [files EXCEPT ![path] = TruncatedFile]
      [] OTHER             -> [files EXCEPT ![path] = FileOf(bytes)]

\* fmt.Sprintf("%s%s/%s", c.cfg.ResultsPath, org, repo)
resultsDir(base, org, repo) == <<base, org, repo>>

stdOutFile(dir) == dir \o <<"stdout.json">>

stdErrFile(dir) == dir \o <<"stderr.log">>

storeResults_Skipped(base, target, run, fail, fs) ==
    [fs |-> fs, log |-> <<>>]

\* storeResults(target, outBuf.Bytes(), errBuf.Bytes()): the file system and
\* the messages logged when it returns.
storeResults(base, target, run, fail, fs) ==
    IF base = "" THEN [fs |-> fs, log |-> <<>>]
    ELSE LET p == orgAndRepo(target)
             dir == resultsDir(base, p.org, p.repo)
             made == [fs EXCEPT !.dirs = @ \cup {dir}]
             out == osWriteFile(made.files, stdOutFile(dir), run.stdout,
                                IF fail = "open stdout" THEN "open"
                                ELSE IF fail = "write stdout" THEN "write" ELSE "none")
             both == osWriteFile(out, stdErrFile(dir), run.stderr,
                                 IF fail = "open stderr" THEN "open"
                                 ELSE IF fail = "write stderr" THEN "write" ELSE "none")
         IN  IF p.err # Nil THEN [fs |-> fs, log |-> <<"failed to parse target">>]
             ELSE IF fail = "mkdir"
             THEN [fs |-> fs, log |-> <<"failed to create results directory">>]
             ELSE IF fail \in {"open stdout", "write stdout"}
             THEN [fs |-> [made EXCEPT !.files = out],
                   log |-> <<"failed to write stdout Lava scan results">>]
             ELSE IF fail \in {"open stderr", "write stderr"}
             THEN [fs |-> [made EXCEPT !.files = both],
                   log |-> <<"failed to write stderr Lava scan results">>]
             ELSE [fs |-> [made EXCEPT !.files = both], log |-> <<"Lava scan results stored">>]

\* The raw results of an earlier scan of the two repositories.
OldResults ==
    [dirs |-> {resultsDir("/results/", "org1", "repo1"), resultsDir("/results/", "org2", "repo2")},
     files |-> [p \in StorePaths |->
                  IF <<p[2], p[3]>> \in {<<"org1", "repo1">>, <<"org2", "repo2">>}
                  THEN IF p[4] = "stdout.json" THEN FileOf(ArrayOut(<<>>)) ELSE FileOf(<<>>)
                  ELSE NoFile]]

InitStore ==
    /\ ListingIdle
    /\ OutIdle
    /\ SrIdle /\ ScanIdle /\ ReposIdle /\ LogIdle /\ FilterIdle /\ CancelIdle /\ MainIdle
    /\ stPc = "run"
    /\ stResultsPath \in {"", "/results/"}
    /\ stTarget \in StoreTargets
    /\ stRun = NoRun
    /\ stFail \in StoreFailures
    /\ stFs \in {EmptyFs, OldResults}
    /\ stLog = <<>>
    /\ stOut = <<>>

\* err := cmd.Run()
StoreCmdRun ==
    /\ stPc = "run"
    /\ stRun' \in StoreRuns
    /\ stPc' = "store"
    /\ UNCHANGED <<exceptStore, stResultsPath, stTarget, stFail, stFs, stLog, stOut>>

\* c.storeResults(repo, outBuf.Bytes(), errBuf.Bytes())
StoreResults ==
    /\ stPc = "store"
    /\ LET r == storeResults(stResultsPath, stTarget, stRun, stFail, stFs)
       IN  stFs' = r.fs /\ stLog' = stLog \o r.log
    /\ stPc' = "classify"
    /\ UNCHANGED <<exceptStore, stResultsPath, stTarget, stRun, stFail, stOut>>

classified_NothingUnlessStored(repo, run, logged) ==
    IF logged # <<>> /\ logged[Len(logged)] # "Lava scan results stored" THEN <<>>
    ELSE scanRepo(repo, run)

\* The rest of scanRepo, from the test of the exit code on: storeResults
\* returns nothing, and what it logged is not looked at.
classified(repo, run, logged) == scanRepo(repo, run)

StoreClassify ==
    /\ stPc = "classify"
    /\ stOut' = classified(stTarget, stRun, stLog)
    /\ stPc' = "returned"
    /\ UNCHANGED <<exceptStore, stResultsPath, stTarget, stRun, stFail, stFs, stLog>>

NextStore == StoreCmdRun \/ StoreResults \/ StoreClassify

SpecStore == InitStore /\ [][NextStore]_vars

(***************************************************************************)
(* SpecListing: the loop body of orgRepositories and its counters, over    *)
(* the repositories the pages of one organization hold.                    *)
(***************************************************************************)
\* The most repositories the pages of the organization hold.
MaxListed == 2

\* The keys of repoMetrics, in the order the loop body tests them.
MetricNames ==
    <<"too_big", "empty", "archived", "disabled", "fork", "template", "inactive", "selected">>

\* repoMetrics := map[string]int{"too_big": 0, ..., "selected": 0}
NewRepoMetrics == [k \in {MetricNames[i] : i \in DOMAIN MetricNames} |-> 0]

\* A listed gh.Repository: its size, the flags that are set ("stale": last
\* updated and last pushed long ago), and its clone address or Nil.
ListedRepo(size, flags, url) ==
    [ActiveRepo(OrgLogin(1), <<"repo", 1>>) EXCEPT
        !.CloneURL = url, !.Size = size,
        !.Archived = Ptr("archived" \in flags), !.Disabled = Ptr("disabled" \in flags),
        !.Fork = Ptr("fork" \in flags), !.IsTemplate = Ptr("template" \in flags),
        !.UpdatedAt = Ptr(IF "stale" \in flags THEN 85 ELSE 95)]

\* The repositories a page may hold: none, one, two neighbouring and all of
\* the flags set; an empty and an oversized one; one without a size; two
\* without a clone address.
ListedRepos ==
    LET url == ActiveRepo(OrgLogin(1), <<"repo", 1>>).CloneURL
    IN  { ListedRepo(Ptr(500), flags, url) :
          flags \in { {}, {"archived"}, {"archived", "disabled"}, {"fork", "template"},
                      {"template", "stale"},
                      {"archived", "disabled", "fork", "template", "stale"} } }
        \cup { ListedRepo(Ptr(0), {}, url), ListedRepo(Ptr(2000), {"stale"}, url),
               ListedRepo([nil |-> TRUE, v |-> 0], {"disabled"}, url),
               ListedRepo(Ptr(500), {}, Nil), ListedRepo(Ptr(500), {"archived"}, Nil) }

loopBody_FallsThrough(m, all, repo, pol, day) ==
    LET status == repoStatus(repo, pol, day)
        counted == IF status = "selected" THEN m ELSE [m EXCEPT ![status] = @ + 1]
    IN  IF repo.CloneURL = Nil
        THEN [repoMetrics |-> counted, allRepos |-> all, panicked |-> TRUE]
        ELSE [repoMetrics |-> [counted EXCEPT !["selected"] = @ + 1],
              allRepos |-> Append(all, repo.CloneURL), panicked |-> FALSE]

\* One pass of the body of `for _, repo := range repos`: the first test that
\* holds counts the repository and continues; when none holds the clone
\* address is dereferenced and appended, then "selected" counts it.
loopBody(m, all, repo, pol, day) ==
    LET status == repoStatus(repo, pol, day)
    IN  IF status # "selected"
        THEN [repoMetrics |-> [m EXCEPT ![status] = @ + 1], allRepos |-> all,
              panicked |-> FALSE]
        ELSE IF repo.CloneURL = Nil
        THEN [repoMetrics |-> m, allRepos |-> all, panicked |-> TRUE]
        ELSE [repoMetrics |-> [m EXCEPT !["selected"] = @ + 1],
              allRepos |-> Append(all, repo.CloneURL), panicked |-> FALSE]

\* for k, v := range repoMetrics { c.metrics.Gauge("repositories", v, ...k...) }
gaugesOf(m) == { <<k, m[k]>> : k \in DOMAIN m }

InitListing ==
    /\ StoreIdle
    /\ OutIdle
    /\ SrIdle /\ ScanIdle /\ ReposIdle /\ LogIdle /\ FilterIdle /\ CancelIdle /\ MainIdle
    /\ \E pol \in Policies :
          listing = [pc |-> "range", pol |-> pol, now |-> FirstDay, seen |-> <<>>,
                     repoMetrics |-> NewRepoMetrics, allRepos |-> <<>>, gauges |-> {},
                     sent |-> <<>>]

\* One pass of the loop body that completes.
ListingBody ==
    /\ listing.pc = "range"
    /\ Len(listing.seen) < MaxListed
    /\ \E repo \in ListedRepos :
          LET r == loopBody(listing.repoMetrics, listing.allRepos, repo, listing.pol,
                            listing.now)
          IN  /\ ~r.panicked
              /\ listing' = [listing EXCEPT !.repoMetrics = r.repoMetrics,
                                            !.allRepos = r.allRepos,
                                            !.seen = Append(@, repo)]
    /\ UNCHANGED exceptListing

\* *repo.CloneURL of a repository listed without a clone address: the
\* goroutine panics, before the counter and with nothing emitted.
ListingBodyPanic ==
    /\ listing.pc = "range"
    /\ Len(listing.seen) < MaxListed
    /\ \E repo \in ListedRepos :
          /\ loopBody(listing.repoMetrics, listing.allRepos, repo, listing.pol,
                      listing.now).panicked
          /\ listing' = [listing EXCEPT !.pc = "panicked"]
    /\ UNCHANGED exceptListing

\* After the last page: the gauges, then resultChan <- allRepos.
ListingEnd ==
    /\ listing.pc = "range"
    /\ listing' = [listing EXCEPT !.pc = "ended", !.gauges = gaugesOf(listing.repoMetrics),
                                  !.sent = <<listing.allRepos>>]
    /\ UNCHANGED exceptListing

NextListing == ListingBody \/ ListingBodyPanic \/ ListingEnd

SpecListing == InitListing /\ [][NextListing]_vars

(***************************************************************************)
(* Properties of scanRepo.                                                 *)
(***************************************************************************)
\* A Summary as the claims describe an error Summary.
IsErrorSummaryFor(s, repo, failure) ==
    /\ s.Repository = repo
    /\ s.Error # <<>>
    /\ \E i \in 1 .. Len(s.Error) : s.Error[i] = failure
    /\ s.ControlInPlace = FALSE
    /\ s.Controls = <<>>
    /\ s.NumberOfControls = 0

ExitedZero(run) == run.state.kind = "exited" /\ run.state.code = 0

\* C2: a scanner process that does not exit with code 0 (a non-zero exit status,
\* a signal, a failed start) gives exactly one error Summary for the target,
\* whose Error embeds the failure text, whatever is on standard output.
C2_NonZeroExitGivesOneErrorSummary ==
    (srPc = "returned" /\ ~ExitedZero(srRun)) =>
        /\ Len(srOut) = 1
        /\ IsErrorSummaryFor(srOut[1], srRepo, srRun.err)

\* All rows of a finding, resource after resource.
RECURSIVE AllRows(_)
AllRows(resources) ==
    IF resources = <<>> THEN <<>>
    ELSE Head(resources).Rows \o AllRows(Tail(resources))

HasControlKey(row) == "Control" \in DOMAIN row

\* The "Control" values of a finding in encounter order, repeats kept.
ControlValues(r) ==
    LET rows == SelectSeq(AllRows(r.Resources), HasControlKey)
    IN  [i \in 1 .. Len(rows) |-> rows[i]["Control"]]

\* C3: exit code 0 and a well-formed finding array give one Summary per finding,
\* in finding order, with the finding's AffectedResource, an empty Error and the
\* "Control" values of its rows in encounter order.
C3_OneSummaryPerFinding ==
    (srPc = "returned" /\ ExitedZero(srRun) /\ srRun.stdout.kind = "array") =>
        /\ Len(srOut) = Len(srRun.stdout.findings)
        /\ \A i \in 1 .. Len(srOut) :
              LET r == srRun.stdout.findings[i]
              IN  /\ srOut[i].Repository = r.AffectedResource
                  /\ srOut[i].Error = <<>>
                  /\ srOut[i].Controls = ControlValues(r)
                  /\ (ControlValues(r) = <<>> => srOut[i].NumberOfControls = 0)

\* A finding whose two resources each carry one control row.
C3_Witness ==
    /\ srPc = "returned" /\ ExitedZero(srRun) /\ srRun.stdout.kind = "array"
    /\ Len(srOut) = 1
    /\ Len(srRun.stdout.findings[1].Resources) = 2
    /\ srOut[1].Controls = <<"BranchProtection", "MFA">>

\* C4: NumberOfControls is the length of Controls in every Summary scanRepo returns.
C4_NumberOfControlsIsLen ==
    \A i \in 1 .. Len(srOut) : srOut[i].NumberOfControls = Len(srOut[i].Controls)

\* A success Summary built from rows with and without the key.
C4_Witness ==
    /\ srPc = "returned"
    /\ ExitedZero(srRun) /\ srRun.stdout.kind = "array" /\ Len(srOut) = 1
    /\ srOut[1].NumberOfControls = 2
    /\ RowCount(srRun.stdout.findings[1].Resources) = 3

\* C5: a Summary built from a finding has ControlInPlace exactly when the
\* finding's Score is 0; an error Summary has ControlInPlace false.
C5_ControlInPlaceFromScore ==
    srPc = "returned" =>
        IF ~runFailed(srRun) /\ jsonUnmarshal(srRun.stdout).err = Nil
        THEN \A i \in 1 .. Len(srOut) :
                srOut[i].ControlInPlace = (jsonUnmarshal(srRun.stdout).lr[i].Score = 0)
        ELSE \A i \in 1 .. Len(srOut) :
                srOut[i].Error # <<>> /\ srOut[i].ControlInPlace = FALSE

\* Score 0 without any control, next to a non-zero score with controls.
C5_Witness ==
    /\ srPc = "returned" /\ ExitedZero(srRun) /\ Len(srOut) = 2
    /\ srOut[1].ControlInPlace /\ srOut[1].NumberOfControls = 0
    /\ ~srOut[2].ControlInPlace /\ srOut[2].NumberOfControls > 0

(***************************************************************************)
(* Properties of Scan.                                                     *)
(***************************************************************************)
\* The Summaries of the returned collection that came from position i of targets.
RECURSIVE SummariesOfFrom(_, _)
SummariesOfFrom(i, k) ==
    IF k > Len(summary) THEN <<>>
    ELSE (IF summaryOf[k] = i THEN <<summary[k]>> ELSE <<>>) \o SummariesOfFrom(i, k + 1)

SummariesOf(i) == SummariesOfFrom(i, 1)

\* C1 as claimed: the collection Scan returns holds at least one Summary for
\* every target, whatever the scanner did.
C1_EveryTargetHasASummary ==
    scanPc = "done" => \A i \in 1 .. Len(targets) : SummariesOf(i) # <<>>

\* The run ended with standard output parsed as an array without findings.
ParsedEmptyReport(run) ==
    /\ ~(run.state.kind = "exited" /\ run.state.code > 0)
    /\ \/ run.stdout.kind = "null"
       \/ run.stdout.kind = "array" /\ run.stdout.findings = <<>>

\* C1 as amended: the collection Scan returns holds at least one Summary for
\* every target, except for a target whose standard output was parsed as an
\* array without findings, which contributes none.
C1_EveryTargetHasASummaryUnlessEmptyReport ==
    scanPc = "done" =>
        \A i \in 1 .. Len(targets) :
            /\ runOf[i] \in ScanRuns
            /\ (SummariesOf(i) = <<>>) <=> ParsedEmptyReport(runOf[i])

\* Scan returned for two targets: one failed, one reported an empty array.
C1_Witness ==
    /\ scanPc = "done" /\ Len(targets) = 2
    /\ ExitCode(runOf[1].state) = 1 /\ Len(SummariesOf(1)) = 1
    /\ ParsedEmptyReport(runOf[2]) /\ SummariesOf(2) = <<>>

\* The workers whose scanner process is running.
RunningScanners == {w \in DOMAIN workers : workers[w].pc = "run"}

\* C7: at most N scanner processes run at the same time, N the client's
\* concurrency ceiling.
C7_AtMostNScannersRun ==
    /\ lavaCfg.Concurrency >= 1
    /\ Cardinality(RunningScanners) <= lavaCfg.Concurrency

\* Two scanners run at once under a ceiling of 2.
C7_Witness ==
    /\ lavaCfg.Concurrency = 2
    /\ Cardinality(RunningScanners) = 2

\* C9: when Scan returns, the Summaries of every target are those of its own
\* scanner run alone, whatever the runs of the other targets were, and no
\* target is left without its scan.
C9_ScanFailureIsolation ==
    scanPc = "done" =>
        \A i \in 1 .. Len(targets) :
            /\ runOf[i] \in ScanRuns
            /\ SummariesOf(i) = scanRepo(targets[i], runOf[i])

\* Scan returned: the first target's scanner failed, the second target's
\* Summaries are there.
C9_Witness ==
    /\ scanPc = "done" /\ Len(targets) = 2
    /\ runFailed(runOf[1])
    /\ ExitedZero(runOf[2]) /\ Len(SummariesOf(2)) = 2

\* C20 as stated: no worker has started before the queue holds all the
\* targets.
C20_QueuePopulatedBeforePoolStarts ==
    workers # <<>> => enqueued = Len(targets)

\* C20, amended: the whole pool is started before the first address is
\* queued, every target is queued before the queue is closed, and once the
\* queue is closed no address is added to it.
C20_PoolStartsThenQueueFillsThenCloses ==
    /\ [](enqueued > 0 => Len(workers) = lavaCfg.Concurrency)
    /\ [](jobsClosed => enqueued = Len(targets))
    /\ [][jobsClosed => (enqueued' = enqueued /\ Len(jobsChan') <= Len(jobsChan))]_vars

\* A worker runs the scanner on the first target while the second target is
\* not yet queued.
C20_Witness ==
    /\ Len(targets) = 2 /\ enqueued = 1 /\ ~jobsClosed
    /\ \E w \in DOMAIN workers : workers[w].pc = "run" /\ jobOf[w] = 1

(***************************************************************************)
(* Properties of Repositories.                                             *)
(***************************************************************************)
SlotHolders == {t \in DOMAIN tasks : tasks[t].slot}

\* C8: at most as many listing tasks as the GHE concurrency ceiling hold a
\* slot of the semaphore; a task calls the directory API and hands over its
\* result only while it holds one; and a task that completed, its listing
\* having succeeded or failed, holds none.
C8_AtMostNTasksHoldASlot ==
    /\ Cardinality(SlotHolders) <= gheCfg.Concurrency
    /\ sem = Cardinality(SlotHolders)
    /\ \A t \in DOMAIN tasks :
          /\ tasks[t].pc \in {"list", "send", "sent"} => tasks[t].slot
          /\ tasks[t].pc \in {"done", "panicked"} => ~tasks[t].slot

\* Under a ceiling of 1, the first task's listing failed and it completed;
\* the second task now holds the only slot.
C8_Witness ==
    /\ gheCfg.Concurrency = 1 /\ Len(tasks) = 2
    /\ tasks[1].pc = "done" /\ tasks[1].err # Nil
    /\ tasks[2].pc = "list" /\ SlotHolders = {2}

\* C10: a failed listing of one organization never aborts the batch: the
\* process goes on, and what Repositories returns holds every repository the
\* listings of the organizations selected.
C10_ListingFailureNeverAbortsBatch ==
    /\ ~crashed
    /\ reposPc = "done" =>
          \A t \in DOMAIN tasks :
              \A i \in DOMAIN tasks[t].allRepos :
                  \E j \in DOMAIN selectedRepos : selectedRepos[j] = tasks[t].allRepos[i]

(***************************************************************************)
(* Spec: the two stages, each from the client its constructor returned.    *)
(***************************************************************************)
Init == InitRepos \/ InitScan

Next == NextRepos \/ NextScan

Spec == Init /\ [][Next]_vars

\* The ceiling a configured concurrency stands for.
EffectiveCeiling(configured) == IF configured <= 0 THEN 1 ELSE configured

\* C6: a configured concurrency of 0 or less gives a ceiling of exactly 1 in
\* both clients, a configured concurrency of 1 or more gives itself: the
\* discovery semaphore has that capacity and the scan pool starts that many
\* workers.
C6_CeilingIsFlooredToOne ==
    /\ reposPc # "idle" =>
          /\ SemCap = EffectiveCeiling(gheEnv.Concurrency)
          /\ sem <= EffectiveCeiling(gheEnv.Concurrency)
    /\ scanPc # "idle" =>
          /\ lavaCfg.Concurrency = EffectiveCeiling(lavaEnv.Concurrency)
          /\ Len(workers) <= EffectiveCeiling(lavaEnv.Concurrency)
          /\ scanPc # "spawn" => Len(workers) = EffectiveCeiling(lavaEnv.Concurrency)

\* The scan client was configured with a concurrency of 0 and its pool has
\* started its one worker.
C6_Witness ==
    /\ lavaEnv.Concurrency = 0
    /\ scanPc = "enqueue" /\ Len(workers) = 1

\* The clone addresses the filter selects from a sequence of pages.
RECURSIVE SelectedFrom(_)
SelectedFrom(pages) ==
    IF pages = <<>> THEN <<>>
    ELSE selectRepos(SelectedFrom(SubSeq(pages, 1, Len(pages) - 1)), pages[Len(pages)],
                     gheCfg.Policy, now)

\* Every element of the sequence a is an element of the sequence b.
IsWithin(a, b) == \A i \in DOMAIN a : \E j \in DOMAIN b : b[j] = a[i]

\* The listing of task t failed on a page after the first.
FailedAfterPageOne(t) ==
    /\ tasks[t].err # Nil
    /\ asked[t] # <<>> /\ asked[t][Len(asked[t])].page > 1
    /\ served[t] # <<>>

\* C11: when the listing of an organization fails on a page after the first,
\* the addresses selected from its earlier pages are kept: once the run of
\* Repositories is over they are in its result.
C11_PartialListingIsKept ==
    \A t \in DOMAIN tasks :
        FailedAfterPageOne(t) /\ (reposPc = "done" \/ crashed) =>
            /\ SelectedFrom(served[t]) # <<>>
            /\ IsWithin(SelectedFrom(served[t]), selectedRepos)

\* C12: no retries in discovery: a task asks for every page at most once, and
\* a call that returned an error is the task's last call.
C12_NoRetriesInDiscovery ==
    \A t \in DOMAIN asked :
        \A i, j \in DOMAIN asked[t] :
            i < j => /\ asked[t][i].page # asked[t][j].page
                     /\ ~asked[t][i].failed

(***************************************************************************)
(* Properties of the log.                                                  *)
(***************************************************************************)
\* The text holds the token.
Holds(text, token) == \E i \in DOMAIN text : text[i] = token

\* C13: no record handed to the logger holds the enterprise token, whatever
\* the scanner did.
C13_NoLogRecordHoldsTheToken ==
    \A i \in DOMAIN log :
        \A j \in DOMAIN log[i].texts : ~Holds(log[i].texts[j], logCfg.GHECfg.Token)

(***************************************************************************)
(* Properties of the filter.                                               *)
(***************************************************************************)
\* The evaluation included the repository: its clone address is emitted.
Included(e) == e.status = "selected"

\* The value of a pointer field holding a flag, as the filter reads it.
IsSet(ptr) == ~ptr.nil /\ ptr.v

\* Predicates 3 to 6 of the filter pass.
FlagsPass ==
    /\ ~(IsSet(fRepo.Archived) /\ ~fPol.IncludeArchived)
    /\ ~(IsSet(fRepo.Disabled) /\ ~fPol.IncludeDisabled)
    /\ ~(IsSet(fRepo.Fork) /\ ~fPol.IncludeForks)
    /\ ~(IsSet(fRepo.IsTemplate) /\ ~fPol.IncludeTemplates)

\* Both timestamps are there and older than day minus the threshold.
BothStale(day) ==
    /\ ~fRepo.UpdatedAt.nil /\ fRepo.UpdatedAt.v < day - fPol.MinLastActivityDays
    /\ ~fRepo.PushedAt.nil /\ fRepo.PushedAt.v < day - fPol.MinLastActivityDays

\* C14: a repository whose size is above the ceiling is excluded, whatever
\* its flags, its timestamps and the rest of the policy.
C14_AboveCeilingIsExcluded ==
    \A i \in DOMAIN fOut :
        (~fRepo.Size.nil /\ fRepo.Size.v > fPol.RepositorySizeLimit) => ~Included(fOut[i])

\* A repository above the ceiling, every include-flag set, was evaluated.
C14_Witness ==
    /\ fOut # <<>>
    /\ ~fRepo.Size.nil /\ fRepo.Size.v = 2000
    /\ fPol.IncludeArchived /\ fPol.IncludeEmpty /\ fPol.IncludeForks
    /\ fPol.IncludeTemplates /\ fPol.IncludeDisabled /\ fPol.MinLastActivityDays = 0

\* C15 as stated: a repository of size 0 is excluded when IncludeEmpty is
\* false; when IncludeEmpty is true it is included exactly when predicates 3
\* to 7 pass.
C15_EmptyRepository ==
    \A i \in DOMAIN fOut :
        (~fRepo.Size.nil /\ fRepo.Size.v = 0) =>
            IF ~fPol.IncludeEmpty THEN ~Included(fOut[i])
            ELSE Included(fOut[i]) <=>
                    /\ FlagsPass
                    /\ ~(fPol.MinLastActivityDays > 0 /\ BothStale(fOut[i].now))

\* C15, amended: a repository of size 0 is excluded when IncludeEmpty is
\* false; when IncludeEmpty is true it is included exactly when the size
\* ceiling is not negative and predicates 3 to 7 pass.
C15_EmptyRepositoryUnderCeiling ==
    \A i \in DOMAIN fOut :
        (~fRepo.Size.nil /\ fRepo.Size.v = 0) =>
            IF ~fPol.IncludeEmpty THEN ~Included(fOut[i])
            ELSE Included(fOut[i]) <=>
                    /\ fPol.RepositorySizeLimit >= 0
                    /\ FlagsPass
                    /\ ~(fPol.MinLastActivityDays > 0 /\ BothStale(fOut[i].now))

\* An empty repository was included under IncludeEmpty.
C15_Witness ==
    /\ fOut # <<>> /\ Included(fOut[1])
    /\ ~fRepo.Size.nil /\ fRepo.Size.v = 0 /\ fPol.IncludeEmpty

\* C16: the status is "inactive" exactly when the earlier predicates pass, the
\* threshold is above 0 and both timestamps are older than now minus the
\* threshold: one stale timestamp, the other recent or missing, keeps the
\* repository, and so does a threshold of 0.
C16_InactiveExactlyWhenBothStale ==
    \A i \in DOMAIN fOut :
        fOut[i].status = "inactive" <=>
            /\ ~(~fRepo.Size.nil /\ fRepo.Size.v > fPol.RepositorySizeLimit)
            /\ ~(~fRepo.Size.nil /\ fRepo.Size.v = 0 /\ ~fPol.IncludeEmpty)
            /\ FlagsPass
            /\ fPol.MinLastActivityDays > 0
            /\ BothStale(fOut[i].now)

\* A repository updated long ago and never pushed to was included under a
\* threshold of 10 days.
C16_Witness ==
    /\ fOut # <<>> /\ Included(fOut[1])
    /\ fPol.MinLastActivityDays = 10
    /\ ~fRepo.UpdatedAt.nil /\ fRepo.UpdatedAt.v = 85
    /\ fRepo.PushedAt.nil

\* C17 as stated: two evaluations of the filter on the same repository and
\* the same policy give the same decision, at any two moments.
C17_SameDecisionAtAnyTwoMoments ==
    \A i, j \in DOMAIN fOut : Included(fOut[i]) <=> Included(fOut[j])

\* C17, amended: the decision depends on the moment only through predicate 7:
\* evaluations at the same moment agree, with a threshold of 0 all evaluations
\* agree, and two evaluations that differ are one that included the
\* repository and one that excluded it as inactive.
C17_DecisionChangesOnlyByInactivity ==
    \A i, j \in DOMAIN fOut :
        /\ fOut[i].now = fOut[j].now => fOut[i].status = fOut[j].status
        /\ fPol.MinLastActivityDays = 0 => fOut[i].status = fOut[j].status
        /\ fOut[i].status # fOut[j].status =>
              {fOut[i].status, fOut[j].status} = {"selected", "inactive"}

\* The repository was included, and MaxElapsedDays later excluded as inactive.
C17_Witness ==
    /\ Len(fOut) >= 2
    /\ fOut[1].status = "selected" /\ fOut[2].status = "inactive"

(***************************************************************************)
(* Properties of cancellation.                                             *)
(***************************************************************************)
\* C18: once the run's context is cancelled, cancellation reaches every call
\* that is blocked, the listing of organizations, the listing of an
\* organization's repositories and the scanner child process alike: the
\* context the call is bound to is done, so the call unblocks with the
\* cancellation error (the child is killed).
C18_CancellationReachesEveryBlockedCall ==
    \A i \in DOMAIN calls :
        ctxDone /\ calls[i].state = "blocked" => Done(calls[i].ctx)

(***************************************************************************)
(* Properties of main.                                                     *)
(***************************************************************************)
\* The kinds of failure that may end the process.
FatalKinds == {"config", "auth", "output write"}

\* C19: the process exits with failure only on a configuration, an
\* authentication or an output-write error; after any other failure the run
\* still calls output.Write.
C19_OnlyConfigAuthOutputAreFatal ==
    mainPc = "exited" =>
        /\ exitStatus # 0 => fatal \in FatalKinds
        /\ failures \cap FatalKinds = {} => reachedWrite


(***************************************************************************)
(* Properties of output.Write, checked under SpecWrite.                    *)
(***************************************************************************)
Supported(format) == toLower(format) \in {"csv", "json"}

\* C21: Write returns ErrOutputFileRequired when the path is empty and
\* ErrUnsupportedFormat when the format is neither csv nor json in any case
\* of letters, and when it returns either error no file was created or
\* truncated: the file system is as it was at the call.
C21_RejectedWriteLeavesFilesUntouched ==
    outPc = "returned" =>
        /\ outFile = "" => outErr = ErrOutputFileRequired
        /\ (outFile # "" /\ ~Supported(outFormat) /\ outCreateErr = Nil)
               => outErr = ErrUnsupportedFormat
        /\ outErr \in {ErrOutputFileRequired, ErrUnsupportedFormat} => outFs = outFsBefore

(***************************************************************************)
(* Termination of Scan, checked under SpecScanFair.                        *)
(***************************************************************************)
AllWorkersExited == \A w \in DOMAIN workers : workers[w].pc = "exited"

\* C22: for every target list, the empty one included, and every pool size
\* of at least one, when every scanner process ends, Scan returns and by then
\* every worker it started has exited: no worker stays blocked on a channel.
C22_ScanTerminates == <>(scanPc = "done" /\ Len(workers) >= 1 /\ AllWorkersExited)

C22_Witness ==
    /\ scanPc = "done" /\ AllWorkersExited
    /\ Len(workers) = MaxConcurrency /\ Len(targets) = MaxTargets
    /\ \E i \in DOMAIN runOf : runFailed(runOf[i])

(***************************************************************************)
(* Termination of Repositories, checked under SpecRepos.                   *)
(***************************************************************************)
\* Task t made a ListByOrg call in this step and the call returned.
CallReturned(t) == t \in DOMAIN asked /\ asked'[t] # asked[t]

\* C23: Repositories terminates for every pattern of page-fetch results in
\* which each call returns, a page that keeps failing with a next page
\* reported included.  An organization has finitely many pages, so this is:
\* every ListByOrg call that returns ends the task's loop or moves the task
\* to a later page; a call that leaves the task where it was can repeat
\* without end.
C23_EveryReturnedCallEndsOrAdvancesTheLoop ==
    [][\A t \in DOMAIN tasks :
          CallReturned(t) => \/ tasks'[t].pc # "list"
                             \/ tasks'[t].page > tasks[t].page]_vars

(***************************************************************************)
(* The merge of the listings, checked under SpecRepos.                     *)
(***************************************************************************)
\* How many times x occurs in the sequence q.
Count(q, x) == Cardinality({i \in DOMAIN q : q[i] = x})

\* How many times x occurs in the lists of the first n tasks.
RECURSIVE CountInLists(_, _)
CountInLists(n, x) ==
    IF n = 0 THEN 0 ELSE CountInLists(n - 1, x) + Count(tasks[n].allRepos, x)

\* The addresses the listings may select.
ClonedAddresses ==
    {selectedRepos[i] : i \in DOMAIN selectedRepos}
    \cup UNION {{tasks[t].allRepos[i] : i \in DOMAIN tasks[t].allRepos} : t \in DOMAIN tasks}

\* C24: the merge channel is closed only after the task of every
\* organization has sent its list, and the list Repositories returns is the
\* multiset union of those lists: no address lost, none duplicated.
C24_MergeClosesAfterEverySend ==
    /\ reposChanClosed =>
          /\ Len(tasks) = Len(orgs)
          /\ \A t \in DOMAIN tasks : tasks[t].pc \in {"sent", "done"}
    /\ reposPc = "done" =>
          \A x \in ClonedAddresses : Count(selectedRepos, x) = CountInLists(Len(tasks), x)

\* The organization and the page of a clone address of the directory.
OrgOf(address) == address[2]

PageOf(address) == address[3][2]

RECURSIVE BatchSizes(_)
BatchSizes(n) ==
    IF n = 0 THEN 0 ELSE BatchSizes(n - 1) + Len(scanRepo(targets[n], runOf[n]))

\* C26: Scan takes the first batch off the results channel only after every
\* worker of the pool has exited and the queue is empty; in the collection
\* the Summaries of one repository scan are one contiguous block, in the
\* order of the Findings; and the collection Scan returns has as many
\* Summaries as the batches have together.
C26_DrainAfterPoolExitInWholeBatches ==
    /\ (scanPc \in {"drain", "done"} \/ summary # <<>>) =>
          /\ Len(workers) = lavaCfg.Concurrency
          /\ \A w \in DOMAIN workers : workers[w].pc = "exited"
          /\ jobsChan = <<>> /\ enqueued = Len(targets)
    /\ \A i, k \in DOMAIN summaryOf :
          (i < k /\ summaryOf[i] = summaryOf[k]) =>
              \A j \in i .. k : summaryOf[j] = summaryOf[i]
    /\ \A i \in DOMAIN targets :
          LET batch == scanRepo(targets[i], runOf[i])
              got   == SummariesOf(i)
          IN  /\ Len(got) <= Len(batch)
              /\ got # <<>> => got = batch
    /\ scanPc = "done" => Len(summary) = BatchSizes(Len(targets))

\* Scan returned three Summaries for two targets; the batch of the second
\* target, two Summaries, was drained before the batch of the first.
C26_Witness ==
    /\ scanPc = "done" /\ Len(targets) = 2
    /\ summaryOf = <<2, 2, 1>>
    /\ summary[1].Repository # summary[2].Repository

\* The workers that hold target i: they received it and have not yet sent
\* its batch.
Holders(i) == {w \in DOMAIN workers : jobOf[w] = i}

\* Where target i is: not yet received by a worker, with its scanner
\* running, or scanned.
TargetState(i) ==
    IF pulls[i] = 0 THEN "PENDING"
    ELSE IF \E w \in Holders(i) : workers[w].pc = "run" THEN "RUNNING"
    ELSE "TERMINAL"

\* C27: every entry of the target list, duplicates included, is received
\* from the queue by exactly one worker and scanned exactly once: it goes
\* from PENDING to RUNNING to TERMINAL and never back, and when Scan returns
\* every entry is TERMINAL.
C27_EveryTargetScannedExactlyOnce ==
    /\ [](\A i \in DOMAIN targets :
            /\ pulls[i] <= 1 /\ scans[i] <= 1
            /\ Cardinality(Holders(i)) <= 1
            /\ TargetState(i) = "RUNNING" => (pulls[i] = 1 /\ scans[i] = 0)
            /\ TargetState(i) = "TERMINAL" => (pulls[i] = 1 /\ scans[i] = 1))
    /\ [][\A i \in DOMAIN targets :
            TargetState(i)' # TargetState(i) =>
                <<TargetState(i), TargetState(i)'>>
                    \in {<<"PENDING", "RUNNING">>, <<"RUNNING", "TERMINAL">>}]_vars
    /\ [](scanPc = "done" => \A i \in DOMAIN targets : TargetState(i) = "TERMINAL")

\* Scan returned for a list that names the same repository twice; each of
\* the two entries was received once and scanned once, with different runs.
C27_Witness ==
    /\ scanPc = "done" /\ Len(targets) = 2 /\ targets[1] = targets[2]
    /\ pulls = <<1, 1>> /\ scans = <<1, 1>>
    /\ runOf[1] # runOf[2]

(***************************************************************************)
(* The classes of scan errors, checked under SpecScanRepo.                 *)
(***************************************************************************)
\* A Summary of the batch has an Error that starts with the prefix.
ErrorStartsWith(batch, prefix) ==
    \E i \in DOMAIN batch : batch[i].Error # <<>> /\ batch[i].Error[1] = <<prefix>>

\* C28: the Error of the batch starts with "error running Lava" exactly when
\* the scanner did not exit with code 0 (a non-zero exit, a signal, a failed
\* start), and with "error unmarsalling Lava report" exactly when it exited
\* with code 0 and standard output does not parse.
C28_ErrorClassFollowsTheExit ==
    srPc = "returned" =>
        /\ ErrorStartsWith(srOut, "error running Lava: ") <=> ~ExitedZero(srRun)
        /\ ErrorStartsWith(srOut, "error unmarsalling Lava report: ")
               <=> (ExitedZero(srRun) /\ jsonUnmarshal(srRun.stdout).err # Nil)

(***************************************************************************)
(* Properties of storeResults, checked under SpecStore.                    *)
(***************************************************************************)
\* The address has at least two path segments.
WellFormed(target) == orgAndRepo(target).err = Nil

\* The directory <base>/<org>/<repo> of the target.
DirOf(base, target) == resultsDir(base, orgAndRepo(target).org, orgAndRepo(target).repo)

\* stdout.json and stderr.log of the target hold what the run wrote.
RawResultsStored ==
    /\ stFs.files[stdOutFile(DirOf(stResultsPath, stTarget))] = FileOf(stRun.stdout)
    /\ stFs.files[stdErrFile(DirOf(stResultsPath, stTarget))] = FileOf(stRun.stderr)

\* The call is past storeResults: the outcome is being classified, or the
\* batch is there.
PastStore == stPc \in {"classify", "returned"}

C30_PersistenceNeverChangesSummaries ==
    stPc = "returned" => stOut = scanRepo(stTarget, stRun)

\* Writing stdout.json failed, the failure was logged, and the call returned
\* the two Summaries of the run.
C30_Witness ==
    /\ stPc = "returned" /\ stResultsPath # "" /\ stFail = "write stdout"
    /\ stLog = <<"failed to write stdout Lava scan results">>
    /\ ~RawResultsStored
    /\ Len(stOut) = 2

(***************************************************************************)
(* Properties of orgAndRepo, checked under SpecStore.                      *)
(***************************************************************************)
IsNonEmpty(segment) == segment # ""

\* The non-empty segments of a URL path, in order.
NonEmptySegments(path) == SelectSeq(stringsSplit(path, "/"), IsNonEmpty)

\* C31: for an address whose URL path has at least two non-empty segments
\* orgAndRepo returns the first two of them as organization and repository,
\* so both names are non-empty; for an address with fewer than two path
\* segments it returns an error, and storeResults writes nothing.
C31_FirstTwoNonEmptySegments ==
    (PastStore /\ urlParse(stTarget).err = Nil) =>
        LET segs == NonEmptySegments(urlParse(stTarget).Path)
            r    == orgAndRepo(stTarget)
        IN  /\ Len(segs) >= 2 =>
                  /\ r.err = Nil
                  /\ r.org = segs[1] /\ r.repo = segs[2]
                  /\ r.org # "" /\ r.repo # ""
            /\ Len(segs) < 2 =>
                  /\ r.err # Nil
                  /\ stFs \in {EmptyFs, OldResults}
                  /\ stResultsPath # "" => stLog = <<"failed to parse target">>

(***************************************************************************)
(* Properties of the counters of orgRepositories, checked under            *)
(* SpecListing.                                                            *)
(***************************************************************************)
\* The predicate counted under name excludes repo, read from the policy and
\* the fields of the repository alone.
Excludes(name, repo, pol, day) ==
    CASE name = "too_big"  -> ~repo.Size.nil /\ repo.Size.v > pol.RepositorySizeLimit
      [] name = "empty"    -> ~repo.Size.nil /\ repo.Size.v = 0 /\ ~pol.IncludeEmpty
      [] name = "archived" -> IsSet(repo.Archived) /\ ~pol.IncludeArchived
      [] name = "disabled" -> IsSet(repo.Disabled) /\ ~pol.IncludeDisabled
      [] name = "fork"     -> IsSet(repo.Fork) /\ ~pol.IncludeForks
      [] name = "template" -> IsSet(repo.IsTemplate) /\ ~pol.IncludeTemplates
      [] name = "inactive" -> /\ pol.MinLastActivityDays > 0
                              /\ ~repo.UpdatedAt.nil /\ ~repo.PushedAt.nil
                              /\ repo.UpdatedAt.v < day - pol.MinLastActivityDays
                              /\ repo.PushedAt.v < day - pol.MinLastActivityDays
      [] OTHER             -> FALSE

\* The positions in MetricNames of the predicates that exclude repo.
Excluding(repo, pol, day) ==
    {i \in DOMAIN MetricNames : Excludes(MetricNames[i], repo, pol, day)}

\* The first predicate in the fixed order that excludes repo, or "selected".
FirstFailing(repo, pol, day) ==
    IF Excluding(repo, pol, day) = {} THEN "selected"
    ELSE MetricNames[CHOOSE i \in Excluding(repo, pol, day) :
                        \A j \in Excluding(repo, pol, day) : i <= j]

\* How many of the first n repositories the task processed fall under name.
Tally(name, n) ==
    Cardinality({i \in 1 .. n :
                    FirstFailing(listing.seen[i], listing.pol, listing.now) = name})

RECURSIVE SumOver(_, _)
SumOver(m, names) ==
    IF names = {} THEN 0
    ELSE LET k == CHOOSE x \in names : TRUE IN m[k] + SumOver(m, names \ {k})

=============================================================================
